---- MODULE Spec2Model ----
(***************************************************************************)
(* A model of d-slap: the recursive grammar engine (parsers/recursive),    *)
(* its unparser, the arithmetic expression compiler and the evaluator      *)
(* facade (parsers/arithmetic).                                            *)
(*                                                                         *)
(* Texts are sequences of one-character strings.  A JavaScript value that  *)
(* may be absent is a record with a "kind" field, so that "x.map is not a  *)
(* function" and the text "undefined" are outcomes the model can produce.  *)
(***************************************************************************)
EXTENDS Integers, Sequences, FiniteSets, TLC

VARIABLES
    expr,            \* recursiveParser: the input text
    backtrack,       \* recursiveParser: options.backtrack
    originalStrings, \* recursiveParser: options.originalStrings
    pos,             \* recursiveParser: scan offset
    stack,           \* the open getGroup calls, outermost first
    pstate,          \* "parsing", "returned", "threw", "unparsed", "idle"
    tree,            \* what recursiveParser returned
    perror,          \* what recursiveParser threw
    unparseArg,      \* what the caller handed to recursiveUnparser
    unparsed,        \* what recursiveUnparser gave for it
    source,          \* arithmetic: the nodes of the parse tree to compile
    options,         \* arithmetic: rawScope and notStrict
    evaluator,       \* arithmetic: what compileTree returned or threw
    astate,          \* "new", "compiled", "failed", "idle"
    heap,            \* the caller's objects: the scope and what it reaches
    outcome,         \* the last evaluate or set call and what it did
    lspec,           \* languageBuilder: the spec and the options given to it
    language,        \* what languageBuilder returned or threw
    parked           \* the other recursiveParser call over the same language

parserVars == <<expr, backtrack, originalStrings, pos, stack, pstate, tree,
                perror, unparseArg, unparsed>>

arithVars == <<source, options, evaluator, astate, heap, outcome>>

builderVars == <<lspec, language, parked>>

vars == <<expr, backtrack, originalStrings, pos, stack, pstate, tree, perror,
          unparseArg, unparsed, source, options, evaluator, astate, heap,
          outcome, lspec, language, parked>>

(***************************************************************************)
(* Bounds                                                                  *)
(***************************************************************************)
MaxLen == 4

Alphabet == {"(", ")", "a", "+", "<", " "}

Texts == UNION {[1..n -> Alphabet] : n \in 0..MaxLen}

(***************************************************************************)
(* The grammar: the terms of languages/arithmetic.js over Alphabet, as     *)
(* languageBuilder resolves them (phrases flattened into term lists).      *)
(* A marker is a list of literal alternatives or a run of characters of a  *)
(* class (the patterns \s+ and [A-Za-z$_][A-Za-z\d$_]* over Alphabet),     *)
(* anchored at the offset; it has the sticky flag and the lastIndex of the *)
(* RegExp object it is.                                                    *)
(***************************************************************************)
Literal(alts) ==
    [kind |-> "alt", alts |-> alts, chars |-> {}, sticky |-> FALSE,
     lastIndex |-> 0]

Run(chars) ==
    [kind |-> "run", alts |-> <<>>, chars |-> chars, sticky |-> FALSE,
     lastIndex |-> 0]

\* the list the language gives as the operator entity, in its order:
\* '=== !== == != >>> << >> && || + - / * % , . | & ^ : ? ! ~'.split(' ')
operatorList ==
    << <<"=", "=", "=">>, <<"!", "=", "=">>, <<"=", "=">>, <<"!", "=">>,
      <<">", ">", ">">>, <<"<", "<">>, <<">", ">">>, <<"&", "&">>,
      <<"|", "|">>, <<"+">>, <<"-">>, <<"/">>,
      <<"*">>, <<"%">>, <<",">>, <<".">>,
      <<"|">>, <<"&">>, <<"^">>, <<":">>,
      <<"?">>, <<"!">>, <<"~">>>>

expression == <<"parentheses", "identifier", "operator">>

postValue == <<"operator", "call">>

whitespace ==
    [name |-> "whitespace", isEntity |-> TRUE,
     start |-> Run({" "}), end |-> Run({" "}),
     subgroups |-> <<>>, hasPostgroups |-> FALSE, postgroups |-> <<>>,
     samePostgroups |-> TRUE]

parentheses ==
    [name |-> "parentheses", isEntity |-> FALSE,
     start |-> Literal(<< <<"(">> >>), end |-> Literal(<< <<")">> >>),
     subgroups |-> expression, hasPostgroups |-> TRUE, postgroups |-> postValue,
     samePostgroups |-> FALSE]

call ==
    [name |-> "call", isEntity |-> FALSE,
     start |-> Literal(<< <<"(">> >>), end |-> Literal(<< <<")">> >>),
     subgroups |-> expression, hasPostgroups |-> TRUE, postgroups |-> postValue,
     samePostgroups |-> FALSE]

operator ==
    [name |-> "operator", isEntity |-> TRUE,
     start |-> Literal(operatorList), end |-> Literal(operatorList),
     subgroups |-> <<>>, hasPostgroups |-> TRUE, postgroups |-> expression,
     samePostgroups |-> FALSE]

identifier ==
    [name |-> "identifier", isEntity |-> TRUE,
     start |-> Run({"a"}), end |-> Run({"a"}),
     subgroups |-> <<>>, hasPostgroups |-> TRUE, postgroups |-> postValue,
     samePostgroups |-> FALSE]

\* what languageBuilder returns for the arithmetic language: the root list
\* with its terms and the aether of options.extra
arithmeticLanguage ==
    [err |-> "", root |-> expression,
     terms |-> [whitespace |-> whitespace, parentheses |-> parentheses,
                call |-> call, operator |-> operator,
                identifier |-> identifier],
     aether |-> "whitespace"]

(***************************************************************************)
(* languageBuilder.  A spec is the list of its entries in key order; a     *)
(* value of the spec is a string (the name of a term or a phrase), an      *)
(* array of values, a term definition object or something else.  The       *)
(* arrays resolve builds refer to one another as the names of the spec     *)
(* do, so they are flattened by following the names.                       *)
(***************************************************************************)
NoDefinition ==
    [has |-> {}, entity |-> <<>>, start |-> <<>>, end |-> <<>>,
     subgroups |-> <<>>, postgroups |-> <<>>, samePostgroups |-> FALSE]

\* 'name'
Name(n) == [kind |-> "string", ref |-> n, items |-> <<>>, def |-> NoDefinition]

\* [item, ...]
List(items) ==
    [kind |-> "array", ref |-> "", items |-> items, def |-> NoDefinition]

\* ['name', ...]
Names(ns) == List([i \in 1..Len(ns) |-> Name(ns[i])])

\* { ... }
Definition(d) == [kind |-> "object", ref |-> "", items |-> <<>>, def |-> d]

\* a value that is no string, array or object
Number == [kind |-> "number", ref |-> "", items |-> <<>>, def |-> NoDefinition]

\* marker sources: a string, an array of strings, a regular expression that
\* is a run of characters of a class (not anchored), without flags or with
\* the flag y
StringMarker(text) ==
    [kind |-> "string", alts |-> <<text>>, chars |-> {}, sticky |-> FALSE,
     lastIndex |-> 0]

ArrayMarker(alts) ==
    [kind |-> "array", alts |-> alts, chars |-> {}, sticky |-> FALSE,
     lastIndex |-> 0]

RegExpMarker(chars) ==
    [kind |-> "regexp", alts |-> <<>>, chars |-> chars, sticky |-> FALSE,
     lastIndex |-> 0]

StickyRegExpMarker(chars) == [RegExpMarker(chars) EXCEPT !.sticky = TRUE]

\* the options of languageBuilder, aether being options.extra.aether ("" for
\* none)
defaults == [parseMarkers |-> FALSE, stickyRx |-> FALSE, aether |-> ""]

\* the names every object has from Object.prototype: "name in terms" holds
\* for them whatever was resolved
ObjectPrototype == {"constructor", "toString"}

HasKey(spec, name) == \E i \in 1..Len(spec) : spec[i].name = name

SpecGet(spec, name) ==
    spec[CHOOSE i \in 1..Len(spec) : spec[i].name = name].value

NoName == "(no name)"

\* the table terms, by the order in which its keys were assigned, and the
\* Term objects convertTerm made, by name in the order they were made
NoTerms == [order |-> <<>>, made |-> <<>>, err |-> ""]

Failed(st, e) == [st EXCEPT !.err = e]

\* group in terms
InTerms(st, group) ==
    group \in ObjectPrototype \/ \E i \in 1..Len(st.order) : st.order[i] = group

\* the checks of convertTerm
convertTermError(d) ==
    IF "entity" \in d.has
    THEN IF "start" \in d.has \/ "end" \in d.has
         THEN "Entity cannot have separate start/end values"
         ELSE IF "subgroups" \in d.has THEN "Entity cannot have subgroups"
         ELSE ""
    ELSE IF "start" \in d.has /\ "end" \in d.has THEN ""
    ELSE "Invalid term definition"

\* parseMarker: the source of a string escaped, those of an array escaped
\* and joined with '|'; the flags of a regular expression are looked up on
\* its source text, so none is kept.  new RegExp('^(' + source + ')')
\* without stickyRx, new RegExp(source, 'y') with it
parseMarker(marker, stickyRx) ==
    [(IF marker.kind = "regexp" THEN Run(marker.chars)
      ELSE Literal(marker.alts)) EXCEPT !.sticky = stickyRx]

RECURSIVE resolve(_, _, _, _)
RECURSIVE resolveEach(_, _, _, _)

\* _(group).map(resolve).value(): the second argument is the index
resolveEach(spec, items, i, st) ==
    IF i > Len(items) \/ st.err # "" THEN st
    ELSE resolveEach(spec, items, i + 1, resolve(spec, items[i], NoName, st))

\* term.subgroups = resolve(term.subgroups), likewise postgroups
resolveGroups(spec, d, key, st) ==
    IF key \in d.has /\ st.err = ""
    THEN resolve(spec, IF key = "subgroups" THEN d.subgroups ELSE d.postgroups,
                 NoName, st)
    ELSE st

\* a term definition
resolveTerm(spec, d, name, st) ==
    IF name = NoName THEN Failed(st, "Internal error, received no name")
    ELSE IF convertTermError(d) # "" THEN Failed(st, convertTermError(d))
    ELSE resolveGroups(spec, d, "postgroups",
                       resolveGroups(spec, d, "subgroups",
                                     [st EXCEPT !.made = Append(@, name)]))

resolve(spec, group, name, st) ==
    CASE group.kind = "string" ->
           IF InTerms(st, group.ref) THEN st
           ELSE IF HasKey(spec, group.ref)
           THEN resolve(spec, SpecGet(spec, group.ref), group.ref,
                        [st EXCEPT !.order = Append(@, group.ref)])
           ELSE Failed(st, "Cannot resolve")
      [] group.kind = "array" -> resolveEach(spec, group.items, 1, st)
      [] group.kind = "object" -> resolveTerm(spec, group.def, name, st)
      [] OTHER -> Failed(st, "Group is not a term list or term definition")

\* variant: the pass over the spec resolves every value, not its name
RECURSIVE resolveAllValues(_, _, _)
resolveAllValues(spec, i, st) ==
    IF i > Len(spec) \/ st.err # "" THEN st
    ELSE resolveAllValues(spec, i + 1,
                          resolve(spec, spec[i].value, spec[i].name, st))

RECURSIVE resolveAll(_, _, _)

\* _.each(spec, function (value, name) { resolve(name, null); })
resolveAll(spec, i, st) ==
    IF i > Len(spec) \/ st.err # "" THEN st
    ELSE resolveAll(spec, i + 1, resolve(spec, Name(spec[i].name), NoName, st))

Flattened(names) == [names |-> names, overflow |-> FALSE]

Overflow == [names |-> <<>>, overflow |-> TRUE]

Joined(a, b) ==
    IF a.overflow \/ b.overflow THEN Overflow ELSE Flattened(a.names \o b.names)

\* _.flattenDeep over the arrays resolve returned for a value: the array of a
\* name holds what its value resolved to, a term definition gives the term
\* itself, and an array that is reached again from inside itself never ends
\* (the call stack overflows)
RECURSIVE flattenDeep(_, _, _)
RECURSIVE flattenItems(_, _, _, _)
\* variant: the lists of a term definition are flattened into the list that
\* names the term
flattenDeepInto(spec, v, visiting) ==
    IF v.kind = "array" THEN flattenItems(spec, v.items, 1, visiting)
    ELSE IF v.ref \in ObjectPrototype THEN Flattened(<<v.ref>>)
    ELSE IF v.ref \in visiting THEN Overflow
    ELSE IF SpecGet(spec, v.ref).kind = "object"
    THEN Joined(Flattened(<<v.ref>>),
                IF "subgroups" \in SpecGet(spec, v.ref).def.has
                THEN flattenDeep(spec, SpecGet(spec, v.ref).def.subgroups,
                                 visiting \cup {v.ref})
                ELSE Flattened(<<>>))
    ELSE flattenDeep(spec, SpecGet(spec, v.ref), visiting \cup {v.ref})

flattenItems(spec, items, i, visiting) ==
    IF i > Len(items) THEN Flattened(<<>>)
    ELSE Joined(flattenDeep(spec, items[i], visiting),
                flattenItems(spec, items, i + 1, visiting))

flattenDeep(spec, v, visiting) ==
    IF v.kind = "array" THEN flattenItems(spec, v.items, 1, visiting)
    ELSE IF v.ref \in ObjectPrototype \/ SpecGet(spec, v.ref).kind = "object"
    THEN Flattened(<<v.ref>>)
    ELSE IF v.ref \in visiting THEN Overflow
    ELSE flattenDeep(spec, SpecGet(spec, v.ref), visiting \cup {v.ref})

\* _.uniq
RECURSIVE uniq(_)
uniq(s) ==
    IF Len(s) = 0 THEN s
    ELSE LET front == uniq(SubSeq(s, 1, Len(s) - 1))
         IN  IF \E i \in 1..Len(front) : front[i] = s[Len(s)] THEN front
             ELSE Append(front, s[Len(s)])

\* flatten(arr): nothing for a list that is absent
flatten(spec, d, key) ==
    IF key \in d.has
    THEN uniq(flattenDeep(spec, IF key = "subgroups" THEN d.subgroups
                                ELSE d.postgroups, {}).names)
    ELSE <<>>

\* the term convertTerm gives for a definition, its lists flattened
convertTerm(spec, opts, name) ==
    LET d == SpecGet(spec, name).def
        start == IF "entity" \in d.has THEN d.entity ELSE d.start
        end == IF "entity" \in d.has THEN d.entity ELSE d.end
    IN  [name |-> name, isEntity |-> "entity" \in d.has,
         start |-> IF opts.parseMarkers THEN parseMarker(start, opts.stickyRx)
                   ELSE start,
         end |-> IF opts.parseMarkers THEN parseMarker(end, opts.stickyRx)
                 ELSE end,
         subgroups |-> flatten(spec, d, "subgroups"),
         hasPostgroups |-> "postgroups" \in d.has,
         postgroups |-> flatten(spec, d, "postgroups"),
         samePostgroups |-> d.samePostgroups]

NoLanguage(e) == [err |-> e, root |-> <<>>, terms |-> <<>>, aether |-> ""]

Keys(st) == {st.order[i] : i \in 1..Len(st.order)}

\* terms[name] = _.flattenDeep([term])[0]
FirstTerm(spec, name) == flattenDeep(spec, Name(name), {})

\* the steps after the root was resolved and flattened
built(spec, opts, root, st) ==
    IF st.err # "" THEN NoLanguage(st.err)
    ELSE IF \E n \in Keys(st) : FirstTerm(spec, n).overflow
    THEN NoLanguage("RangeError")
    ELSE IF \E n \in Keys(st) : Len(FirstTerm(spec, n).names) = 0
    THEN NoLanguage("TypeError")
    ELSE [err |-> "", root |-> uniq(root.names),
          terms |-> [n \in {m \in Keys(st) :
                               FirstTerm(spec, m).names[1] \notin ObjectPrototype}
                       |-> convertTerm(spec, opts, FirstTerm(spec, n).names[1])],
          aether |-> opts.aether]

rootOf(spec, opts, st) ==
    IF st.err # "" THEN NoLanguage(st.err)
    ELSE IF flattenDeep(spec, SpecGet(spec, "$root"), {}).overflow
    THEN NoLanguage("RangeError")
    ELSE built(spec, opts, flattenDeep(spec, SpecGet(spec, "$root"), {}),
               resolveAll(spec, 1, st))

\* languageBuilder(spec, options)
languageBuilder(spec, opts) ==
    IF ~HasKey(spec, "$root") \/ SpecGet(spec, "$root") = Name("")
    THEN NoLanguage("Language root not specified")
    ELSE rootOf(spec, opts, resolve(spec, SpecGet(spec, "$root"), NoName, NoTerms))

\* the spec of languages/arithmetic.js, its terms over Alphabet
arithmeticSpec ==
    <<[name |-> "$root", value |-> Name("expression")],
      [name |-> "whitespace",
       value |-> Definition([NoDefinition EXCEPT
                    !.has = {"entity", "samePostgroups"},
                    !.entity = RegExpMarker({" "}), !.samePostgroups = TRUE])],
      [name |-> "expression", value |-> Names(<<"value", "operator">>)],
      [name |-> "value", value |-> Names(<<"parentheses", "identifier">>)],
      [name |-> "postValue", value |-> Names(<<"operator", "call">>)],
      [name |-> "parentheses",
       value |-> Definition([NoDefinition EXCEPT
                    !.has = {"start", "end", "subgroups", "postgroups"},
                    !.start = StringMarker(<<"(">>), !.end = StringMarker(<<")">>),
                    !.subgroups = Names(<<"expression">>),
                    !.postgroups = Names(<<"postValue">>)])],
      [name |-> "call",
       value |-> Definition([NoDefinition EXCEPT
                    !.has = {"start", "end", "subgroups", "postgroups"},
                    !.start = StringMarker(<<"(">>), !.end = StringMarker(<<")">>),
                    !.subgroups = Names(<<"expression">>),
                    !.postgroups = Names(<<"postValue">>)])],
      [name |-> "operator",
       value |-> Definition([NoDefinition EXCEPT
                    !.has = {"entity", "postgroups"},
                    !.entity = ArrayMarker(operatorList),
                    !.postgroups = Names(<<"expression">>)])],
      [name |-> "identifier",
       value |-> Definition([NoDefinition EXCEPT
                    !.has = {"entity", "postgroups"},
                    !.entity = RegExpMarker({"a"}),
                    !.postgroups = Names(<<"postValue">>)])]>>

\* language.terms
Terms == language.terms

\* language.aether ("" when the language has none)
Aether == language.aether

\* the pseudo-group recursiveParser opens: { name: 'result', isRoot: true,
\* subgroups: language }
RootName == "result"

IsRoot(g) == g = RootName

SubgroupsOf(g) == IF IsRoot(g) THEN language.root ELSE Terms[g].subgroups

(***************************************************************************)
(* tryMatch: the string the marker matches at pos, <<>> when it matches    *)
(* nothing or the empty string (the callers test it for truthiness only).  *)
(***************************************************************************)
IsPrefixAt(s, text, p) ==
    /\ p + Len(s) <= Len(text)
    /\ SubSeq(text, p + 1, p + Len(s)) = s

RECURSIVE RunLength(_, _, _)
RunLength(chars, text, p) ==
    IF p < Len(text) /\ text[p + 1] \in chars
    THEN 1 + RunLength(chars, text, p + 1)
    ELSE 0

RECURSIVE FirstAlt(_, _, _, _)
FirstAlt(alts, i, text, p) ==
    IF i > Len(alts) THEN <<>>
    ELSE IF IsPrefixAt(alts[i], text, p) THEN alts[i]
    ELSE FirstAlt(alts, i + 1, text, p)

\* the first run of characters of the class at or after p
RECURSIVE SearchRun(_, _, _)
SearchRun(chars, text, p) ==
    IF p >= Len(text) THEN <<>>
    ELSE IF text[p + 1] \in chars
    THEN SubSeq(text, p + 1, p + RunLength(chars, text, p))
    ELSE SearchRun(chars, text, p + 1)

\* the text s where it stands at or after p
RECURSIVE SearchText(_, _, _)
SearchText(s, text, p) ==
    IF p + Len(s) > Len(text) THEN <<>>
    ELSE IF IsPrefixAt(s, text, p) THEN s
    ELSE SearchText(s, text, p + 1)

\* String(array): the items joined with commas
RECURSIVE Joint(_)
Joint(alts) ==
    IF Len(alts) = 0 THEN <<>>
    ELSE IF Len(alts) = 1 THEN alts[1]
    ELSE alts[1] \o <<",">> \o Joint(Tail(alts))

\* exprsubstr.match(rx) for a matcher that is not sticky.  A marker that
\* languageBuilder left as the spec gave it is searched for from pos on: a
\* regular expression as it is, a string or an array as the pattern its text
\* is (the texts of such markers hold no character that is special in a
\* pattern)
tryMatch(rx, text, p) ==
    CASE rx.kind = "run" ->
           SubSeq(text, p + 1, p + RunLength(rx.chars, text, p))
      [] rx.kind = "alt" -> FirstAlt(rx.alts, 1, text, p)
      [] rx.kind = "regexp" -> SearchRun(rx.chars, text, p)
      [] OTHER -> SearchText(Joint(rx.alts), text, p)

\* rx.lastIndex = pos on the matcher of a term, which every key of that term
\* in language.terms holds; the start and the end of an entity, and equal
\* markers of a group, are one object
Written(lang, name, which, p) ==
    [lang EXCEPT !.terms =
        [n \in DOMAIN lang.terms |->
            LET t == lang.terms[n]
            IN  IF t.name # name THEN t
                ELSE IF t.isEntity \/ t.start = t.end
                THEN [t EXCEPT !.start.lastIndex = p, !.end.lastIndex = p]
                ELSE IF which = "start" THEN [t EXCEPT !.start.lastIndex = p]
                ELSE [t EXCEPT !.end.lastIndex = p]]]

(***************************************************************************)
(* resultFactory                                                           *)
(***************************************************************************)
Substr(text, from, len) == SubSeq(text, from + 1, from + len)

\* variant: the length is the offset reached
EntityNodeToCursor(name, startPosition, p, text) ==
    [type |-> name, position |-> startPosition, length |-> p,
     content |-> Substr(text, startPosition, p - startPosition)]

EntityNode(name, startPosition, p, text) ==
    [type |-> name, position |-> startPosition, length |-> p - startPosition,
     content |-> Substr(text, startPosition, p - startPosition)]

GroupNode(name, startPosition, p, text, withContent, start, end, groups) ==
    IF withContent
    THEN [type |-> name, position |-> startPosition,
          length |-> p - startPosition,
          content |-> Substr(text, startPosition, p - startPosition),
          start |-> start, end |-> end, groups |-> groups]
    ELSE [type |-> name, position |-> startPosition,
          length |-> p - startPosition,
          start |-> start, end |-> end, groups |-> groups]

RootNode(p, text, withContent, groups) ==
    IF withContent
    THEN [type |-> RootName, position |-> 0, length |-> p,
          content |-> Substr(text, 0, p), groups |-> groups]
    ELSE [type |-> RootName, position |-> 0, length |-> p, groups |-> groups]

(***************************************************************************)
(* getGroup, one step of its loop at a time.  A frame is one open call of  *)
(* getGroup: its locals, the index k of the candidate of nextGroups that   *)
(* tryMatchSubgroups is at, and the place in the loop body (phase).        *)
(* _(subgroups).map(tryMatchSubgroup).filter().first() is lodash's lazy    *)
(* chain: candidates are tried in order up to the first that gives a       *)
(* result.                                                                 *)
(***************************************************************************)
NoErr == [error |-> "none", at |-> 0, marker |-> <<>>]

\* variant: the offset is taken after the failing character
SyntaxErrorAfter(p) == [error |-> "Syntax error", at |-> p + 1, marker |-> <<>>]

SyntaxError(p) == [error |-> "Syntax error", at |-> p, marker |-> <<>>]

\* variant: the offset is taken after the start marker was consumed
UnexpectedEndAtCursor(start, startPosition) ==
    [error |-> "Unexpected end of expression",
     at |-> startPosition + Len(start), marker |-> start]

UnexpectedEnd(start, startPosition) ==
    [error |-> "Unexpected end of expression", at |-> startPosition,
     marker |-> start]

\* a candidate that is no term has no start marker: tryMatch reads a property
\* of undefined
NoStartMarker == [error |-> "TypeError", at |-> 0, marker |-> <<>>]

\* rx.match(expr) on a sticky matcher: a RegExp has no method match
NoMatchMethod ==
    [error |-> "TypeError: rx.match is not a function", at |-> 0,
     marker |-> <<>>]

\* variant: the offset stays where it is
consumeNone(p, count) == p

consume(p, count) == p + count

LoopPhase(nextGroups) == IF Len(nextGroups) = 0 THEN "end" ELSE "subs"

NewFrame(name, start, startPosition, viaAether) ==
    [group |-> name, start |-> start, startPosition |-> startPosition,
     groups |-> <<>>, nextGroups |-> SubgroupsOf(name), k |-> 1,
     phase |-> LoopPhase(SubgroupsOf(name)), viaAether |-> viaAether,
     err |-> NoErr]

Top == stack[Len(stack)]

ReplaceTop(st, f) == [st EXCEPT ![Len(st)] = f]

Pop(st) == SubSeq(st, 1, Len(st) - 1)

\* nextGroups after a match of the term sub inside the frame f
NextGroupsAfter(f, sub) ==
    IF sub.samePostgroups THEN f.nextGroups
    ELSE IF sub.hasPostgroups THEN sub.postgroups
    ELSE SubgroupsOf(f.group)

\* variant: the chain is not lazy, the candidates after the one that matched
\* are tried as well
MatchedEager(f, sub, node) ==
    IF f.k < Len(f.nextGroups)
    THEN [f EXCEPT !.groups = Append(f.groups, node), !.k = f.k + 1]
    ELSE [f EXCEPT !.groups = Append(f.groups, node),
                   !.nextGroups = NextGroupsAfter(f, sub),
                   !.k = 1,
                   !.phase = LoopPhase(NextGroupsAfter(f, sub))]

\* groups.push(match.result); continue
Matched(f, sub, node) ==
    [f EXCEPT !.groups = Append(f.groups, node),
              !.nextGroups = NextGroupsAfter(f, sub),
              !.k = 1,
              !.phase = LoopPhase(NextGroupsAfter(f, sub))]

\* variant: the candidate set starts over after an aether match
AetherMatchedReset(f) ==
    [f EXCEPT !.k = 1, !.nextGroups = SubgroupsOf(f.group),
              !.phase = LoopPhase(SubgroupsOf(f.group))]

\* if (aether && tryMatchSubgroup(aether)) continue
AetherMatched(f) == [f EXCEPT !.k = 1, !.phase = LoopPhase(f.nextGroups)]

\* tryMatchSubgroup gave null: on to the next candidate, then to the end marker
NextCandidate(f) ==
    IF f.k < Len(f.nextGroups) THEN [f EXCEPT !.k = f.k + 1]
    ELSE [f EXCEPT !.phase = "end"]

Throw(f, e) == [f EXCEPT !.phase = "throw", !.err = e]

\* what one call of recursiveParser holds in its closure, and what it gave
NoCall ==
    [expr |-> <<>>, backtrack |-> FALSE, pos |-> 0, stack |-> <<>>,
     pstate |-> "idle", tree |-> <<>>, perror |-> <<>>]

ParserInit ==
    /\ lspec = <<>>
    /\ language = arithmeticLanguage
    /\ parked = NoCall
    /\ expr \in Texts
    /\ backtrack \in BOOLEAN
    /\ originalStrings \in BOOLEAN
    /\ pos = 0
    /\ stack = <<NewFrame(RootName, <<>>, 0, FALSE)>>
    /\ pstate = "parsing"
    /\ tree = <<>>
    /\ perror = <<>>
    /\ unparseArg = "none"
    /\ unparsed = <<>>
    /\ source = <<>>
    /\ options = [rawScope |-> FALSE, notStrict |-> FALSE]
    /\ evaluator = <<>>
    /\ astate = "idle"
    /\ heap = <<>>
    /\ outcome = <<>>

\* tryMatchSubgroup on candidate k of the current set
TryMatchSubgroup ==
    /\ pstate = "parsing"
    /\ Top.phase = "subs"
    /\ pos < Len(expr)
    /\ LET f == Top
           sub == Terms[f.nextGroups[f.k]]
           start == tryMatch(sub.start, expr, pos)
           p == consume(pos, Len(start))
       IN  IF f.nextGroups[f.k] \in ObjectPrototype
           THEN /\ stack' = ReplaceTop(stack, Throw(f, NoStartMarker))
                /\ pos' = pos
                /\ language' = language
           ELSE IF sub.start.sticky
           THEN /\ language' = Written(language, sub.name, "start", pos)
                /\ stack' = ReplaceTop(stack, Throw(f, NoMatchMethod))
                /\ pos' = pos
           ELSE IF start = <<>>
           THEN /\ stack' = ReplaceTop(stack, NextCandidate(f))
                /\ pos' = pos
                /\ language' = language
           ELSE IF sub.isEntity
           THEN /\ stack' = ReplaceTop(stack,
                               Matched(f, sub, EntityNode(sub.name, pos, p, expr)))
                /\ pos' = p
                /\ language' = language
           ELSE /\ stack' = Append(stack, NewFrame(sub.name, start, pos, FALSE))
                /\ pos' = p
                /\ language' = language
    /\ UNCHANGED <<expr, backtrack, originalStrings, pstate, tree, perror,
                   unparseArg, unparsed>>
    /\ UNCHANGED arithVars
    /\ UNCHANGED <<lspec, parked>>

\* the end marker of the open group, tried when no candidate matched
TryMatchEnd ==
    /\ pstate = "parsing"
    /\ Top.phase = "end"
    /\ pos < Len(expr)
    /\ LET f == Top
           end == IF IsRoot(f.group) THEN <<>>
                  ELSE tryMatch(Terms[f.group].end, expr, pos)
           p == consume(pos, Len(end))
           node == GroupNode(f.group, f.startPosition, p, expr, originalStrings,
                             f.start, end, f.groups)
           parent == stack[Len(stack) - 1]
       IN  IF ~IsRoot(f.group) /\ Terms[f.group].end.sticky
           THEN /\ language' = Written(language, f.group, "end", pos)
                /\ stack' = ReplaceTop(stack, Throw(f, NoMatchMethod))
                /\ pos' = pos
           ELSE IF end = <<>>
           THEN /\ stack' = ReplaceTop(stack, [f EXCEPT !.phase = "aether"])
                /\ pos' = pos
                /\ language' = language
           ELSE /\ stack' = ReplaceTop(Pop(stack),
                               IF f.viaAether THEN AetherMatched(parent)
                               ELSE Matched(parent, Terms[f.group], node))
                /\ pos' = p
                /\ language' = language
    /\ UNCHANGED <<expr, backtrack, originalStrings, pstate, tree, perror,
                   unparseArg, unparsed>>
    /\ UNCHANGED arithVars
    /\ UNCHANGED <<lspec, parked>>

\* the aether term, tried last; nothing matched then is a syntax error
TryMatchAether ==
    /\ pstate = "parsing"
    /\ Top.phase = "aether"
    /\ pos < Len(expr)
    /\ LET f == Top
           a == Terms[Aether]
           start == tryMatch(a.start, expr, pos)
           p == consume(pos, Len(start))
       IN  IF Aether # "" /\ a.start.sticky
           THEN /\ language' = Written(language, a.name, "start", pos)
                /\ stack' = ReplaceTop(stack, Throw(f, NoMatchMethod))
                /\ pos' = pos
           ELSE IF Aether = "" \/ start = <<>>
           THEN /\ stack' = ReplaceTop(stack, Throw(f, SyntaxError(pos)))
                /\ pos' = pos
                /\ language' = language
           ELSE IF a.isEntity
           THEN /\ stack' = ReplaceTop(stack, AetherMatched(f))
                /\ pos' = p
                /\ language' = language
           ELSE /\ stack' = Append(stack, NewFrame(a.name, start, pos, TRUE))
                /\ pos' = p
                /\ language' = language
    /\ UNCHANGED <<expr, backtrack, originalStrings, pstate, tree, perror,
                   unparseArg, unparsed>>
    /\ UNCHANGED arithVars
    /\ UNCHANGED <<lspec, parked>>

\* the loop's condition fails: the root returns, any other group throws
EndOfExpression ==
    /\ pstate = "parsing"
    /\ Top.phase # "throw"
    /\ pos >= Len(expr)
    /\ LET f == Top
       IN  IF IsRoot(f.group)
           THEN /\ pstate' = "returned"
                /\ tree' = <<RootNode(pos, expr, originalStrings, f.groups)>>
                /\ stack' = <<>>
           ELSE /\ stack' = ReplaceTop(stack,
                               Throw(f, UnexpectedEnd(f.start, f.startPosition)))
                /\ UNCHANGED <<pstate, tree>>
    /\ UNCHANGED <<expr, backtrack, originalStrings, pos, perror, unparseArg,
                   unparsed>>
    /\ UNCHANGED arithVars
    /\ UNCHANGED builderVars

\* variant: the offset kept is the one after the start marker
oldPositionAfter(f) == f.startPosition + Len(f.start)

\* var oldPosition = pos, taken before getGroup consumes the start marker
oldPosition(f) == f.startPosition

\* an exception leaves getGroup: tryMatchSubgroup catches it when backtrack is
\* set (the root's getGroup is not called from tryMatchSubgroup)
Unwind ==
    /\ pstate = "parsing"
    /\ Top.phase = "throw"
    /\ LET f == Top
           parent == stack[Len(stack) - 1]
       IN  IF backtrack /\ Len(stack) > 1
           THEN /\ pos' = oldPosition(f)
                /\ stack' = ReplaceTop(Pop(stack),
                               IF f.viaAether
                               THEN Throw(parent, SyntaxError(f.startPosition))
                               ELSE NextCandidate(parent))
                /\ UNCHANGED <<pstate, perror>>
           ELSE /\ pstate' = "threw"
                /\ perror' = <<f.err>>
                /\ stack' = <<>>
                /\ pos' = pos
    /\ UNCHANGED <<expr, backtrack, originalStrings, tree, unparseArg, unparsed>>
    /\ UNCHANGED arithVars
    /\ UNCHANGED builderVars

(***************************************************************************)
(* recursiveUnparser.  A property read gives the value or undefined; .map  *)
(* on anything but an array throws; undefined in a string concatenation is *)
(* the text "undefined".                                                   *)
(***************************************************************************)
JsUndefined == [kind |-> "undefined"]

JsString(s) == [kind |-> "string", str |-> s]

JsArray(a) == [kind |-> "array", items |-> a]

JsObject(o) == [kind |-> "object", obj |-> o]

Prop(node, name) ==
    IF name \notin DOMAIN node THEN JsUndefined
    ELSE IF name = "groups" THEN JsArray(node[name])
    ELSE JsString(node[name])

UndefinedText == <<"u", "n", "d", "e", "f", "i", "n", "e", "d">>

ToStr(v) == IF v.kind = "string" THEN v.str ELSE UndefinedText

Returned(s) == [threw |-> "", str |-> s]

TypeError == [threw |-> "TypeError", str |-> <<>>]

RECURSIVE unparseNodes(_)
RECURSIVE unparseFrom(_, _)
RECURSIVE unparseNode(_)

unparseNode(node) ==
    LET start == Prop(node, "start")
        end == Prop(node, "end")
        middle == IF node.type = "entity"
                  THEN Returned(ToStr(Prop(node, "content")))
                  ELSE unparseNodes(Prop(node, "groups"))
    IN  IF middle.threw # "" THEN middle
        ELSE Returned(ToStr(start) \o middle.str \o ToStr(end))

\* nodes.map(unparseNode).join(''), from item i on
unparseFrom(items, i) ==
    IF i > Len(items) THEN Returned(<<>>)
    ELSE LET head == unparseNode(items[i])
             rest == unparseFrom(items, i + 1)
         IN  IF head.threw # "" THEN head
             ELSE IF rest.threw # "" THEN rest
             ELSE Returned(head.str \o rest.str)

unparseNodes(nodes) ==
    IF nodes.kind # "array" THEN TypeError ELSE unparseFrom(nodes.items, 1)

recursiveUnparser(t) == unparseNodes(t)

\* the caller hands the returned tree, or its list of top-level nodes, to
\* recursiveParser.unparse
Unparse ==
    /\ pstate = "returned"
    /\ \E arg \in {"tree", "groups"} :
          /\ unparseArg' = arg
          /\ unparsed' = <<recursiveUnparser(
                             IF arg = "tree" THEN JsObject(tree[1])
                             ELSE JsArray(tree[1].groups))>>
    /\ pstate' = "unparsed"
    /\ UNCHANGED <<expr, backtrack, originalStrings, pos, stack, tree, perror>>
    /\ UNCHANGED arithVars
    /\ UNCHANGED builderVars

ParserNext ==
    \/ TryMatchSubgroup
    \/ TryMatchEnd
    \/ TryMatchAether
    \/ EndOfExpression
    \/ Unwind
    \/ Unparse

SpecParser == ParserInit /\ [][ParserNext]_vars

(***************************************************************************)
(* The caller's side of languageBuilder: a language is built from a spec   *)
(* once, and texts are parsed with what it returned.                       *)
(***************************************************************************)
Entry(name, value) == [name |-> name, value |-> value]

\* { start: start, end: end, subgroups: subgroups }
GroupTerm(start, end, subgroups) ==
    Definition([NoDefinition EXCEPT !.has = {"start", "end", "subgroups"},
                                    !.start = StringMarker(start),
                                    !.end = StringMarker(end),
                                    !.subgroups = subgroups])

\* { entity: marker }
EntityTerm(marker) ==
    Definition([NoDefinition EXCEPT !.has = {"entity"}, !.entity = marker])

\* a definition with the listed properties, all of them truthy
Properties(has) ==
    Definition([NoDefinition EXCEPT !.has = has,
                                    !.start = StringMarker(<<"<">>),
                                    !.end = StringMarker(<<"+">>),
                                    !.entity = StringMarker(<<"+">>),
                                    !.subgroups = Names(<<"id">>),
                                    !.postgroups = Names(<<"id">>)])

idEntry == Entry("id", EntityTerm(RegExpMarker({"a"})))

spaceEntry == Entry("space", EntityTerm(RegExpMarker({" "})))

\* a group that lists itself among its subgroups
nested ==
    <<Entry("$root", Names(<<"paren", "id">>)),
      Entry("paren", GroupTerm(<<"(">>, <<")">>, Names(<<"paren", "id">>))),
      idEntry, spaceEntry>>

\* two groups that reach each other and themselves through a phrase
mutual ==
    <<Entry("$root", Name("items")),
      Entry("items", Names(<<"paren", "angle", "id">>)),
      Entry("paren", GroupTerm(<<"(">>, <<")">>, Names(<<"angle", "id">>))),
      Entry("angle", GroupTerm(<<"<">>, <<"+">>, Name("items"))),
      idEntry, spaceEntry>>

\* a group and an entity that start with the same marker
ambiguous ==
    <<Entry("$root", Names(<<"paren", "open", "id">>)),
      Entry("paren", GroupTerm(<<"(">>, <<")">>, Names(<<"paren", "open", "id">>))),
      Entry("open", EntityTerm(StringMarker(<<"(">>))),
      idEntry, spaceEntry>>

\* values for one more entry of a spec
ExtraValues ==
    {Name("nope"), Names(<<"id", "nope">>),
     GroupTerm(<<"<">>, <<"+">>, Names(<<"nope">>)),
     Name("constructor"), Names(<<"id", "toString">>),
     GroupTerm(<<"<">>, <<"+">>, Names(<<"constructor">>)),
     Name("extra"), Names(<<"id", "extra">>), Names(<<>>), Name("id"),
     GroupTerm(<<"<">>, <<"+">>, Names(<<"extra", "id">>)),
     List(<<EntityTerm(StringMarker(<<"+">>))>>), Number,
     EntityTerm(StringMarker(<<"+">>)),
     EntityTerm(StringMarker(<<>>)), EntityTerm(ArrayMarker(<<<<>>, <<"+">>>>)),
     GroupTerm(<<"<">>, <<>>, Names(<<"id">>)),
     GroupTerm(<<>>, <<"+">>, Names(<<"id">>))}
    \cup {Properties(has) : has \in SUBSET {"entity", "start", "end", "subgroups"}}

\* nested with one more entry, which the root lists or not
Extended(value, reachable) ==
    <<Entry("$root", Names(IF reachable THEN <<"paren", "id", "extra">>
                           ELSE <<"paren", "id">>))>>
    \o Tail(nested) \o <<Entry("extra", value)>>

\* markers that are regular expressions of the caller, one of them sticky,
\* and a string
flat ==
    <<Entry("$root", Names(<<"id", "lt", "plus">>)),
      idEntry,
      Entry("lt", EntityTerm(StringMarker(<<"<">>))),
      Entry("plus", EntityTerm(StickyRegExpMarker({"+"}))),
      spaceEntry>>

\* an entity with postgroups, among them a group, and an entity and a group
\* without
switching ==
    <<Entry("$root", Names(<<"id", "paren">>)),
      Entry("id", Definition([NoDefinition EXCEPT
                      !.has = {"entity", "postgroups"},
                      !.entity = RegExpMarker({"a"}),
                      !.postgroups = Names(<<"plus", "paren">>)])),
      Entry("plus", EntityTerm(StringMarker(<<"+">>))),
      Entry("paren", GroupTerm(<<"(">>, <<")">>, Names(<<"plus">>))),
      spaceEntry>>

\* { parseMarkers: true, extra: { aether: aether } }
Compiled(aether) == [defaults EXCEPT !.parseMarkers = TRUE, !.aether = aether]

\* a spec, the options it is built with, and how many calls of
\* recursiveParser are open over the language at a time
Given(spec, opts, calls) == [spec |-> spec, options |-> opts, calls |-> calls]

LanguageSpecs ==
    {Given(s, Compiled(a), 1) : s \in {nested, mutual, ambiguous, switching},
                                a \in {"", "space"}}
    \cup {Given(arithmeticSpec, Compiled("whitespace"), 1)}
    \cup {Given(Extended(v, r), Compiled(""), 1) : v \in ExtraValues,
                                                   r \in BOOLEAN}
    \cup {Given(Tail(nested), Compiled(""), 1),
          Given(<<Entry("$root", Name(""))>> \o Tail(nested), Compiled(""), 1)}
    \cup {Given(flat, o, c) :
             o \in {defaults, [defaults EXCEPT !.aether = "space"],
                    Compiled("space"),
                    [Compiled("space") EXCEPT !.stickyRx = TRUE]},
             c \in {1, 2}}
    \cup {Given(ambiguous, Compiled("space"), 2)}
    \cup {Given(Extended(GroupTerm(<<"<">>, <<"+">>, Names(<<"extra", "id">>)),
                         FALSE), Compiled("extra"), 1),
          Given(Extended(EntityTerm(StringMarker(<<>>)), FALSE),
                Compiled("extra"), 1)}

NotBuilt == NoLanguage("not built")

\* the deepest nesting of the texts parsed
MaxDepth == 2

RECURSIVE Nested(_, _, _)
Nested(open, close, n) ==
    IF n = 0 THEN <<"a">> ELSE open \o Nested(open, close, n - 1) \o close

BuilderTexts ==
    {t \in Texts : Len(t) + 2 <= MaxLen}
    \cup {Nested(<<"(">>, <<")">>, n) : n \in 0..MaxDepth}
    \cup {Nested(<<"(", "<">>, <<"+", ")">>, n) : n \in 0..MaxDepth}

\* the texts of two calls that are open at a time
SharedTexts ==
    {<<"a", "+">>, <<"a", " ", "<">>, <<"(">>, <<"(", "a", ")">>}

BuilderInit ==
    /\ lspec \in LanguageSpecs
    /\ language = NotBuilt
    /\ parked = NoCall
    /\ expr = <<>>
    /\ backtrack = FALSE
    /\ originalStrings = FALSE
    /\ pos = 0
    /\ stack = <<>>
    /\ pstate = "idle"
    /\ tree = <<>>
    /\ perror = <<>>
    /\ unparseArg = "none"
    /\ unparsed = <<>>
    /\ source = <<>>
    /\ options = [rawScope |-> FALSE, notStrict |-> FALSE]
    /\ evaluator = <<>>
    /\ astate = "idle"
    /\ heap = <<>>
    /\ outcome = <<>>

\* language = languageBuilder(spec, options)
Build ==
    /\ language = NotBuilt
    /\ language' = languageBuilder(lspec.spec, lspec.options)
    /\ UNCHANGED <<lspec, parked>>
    /\ UNCHANGED parserVars
    /\ UNCHANGED arithVars

\* recursiveParser(expr, language, options): up to the call of getGroup
Parse ==
    /\ language.err = ""
    /\ pstate = "idle"
    /\ expr' \in IF lspec.calls = 1 THEN BuilderTexts ELSE SharedTexts
    /\ backtrack' \in BOOLEAN
    /\ pos' = 0
    /\ stack' = <<NewFrame(RootName, <<>>, 0, FALSE)>>
    /\ pstate' = "parsing"
    /\ UNCHANGED <<originalStrings, tree, perror, unparseArg, unparsed>>
    /\ UNCHANGED arithVars
    /\ UNCHANGED builderVars

\* the steps of another call over the same language follow: each call has
\* its own expr, options, pos and results
Switch ==
    /\ lspec.calls = 2
    /\ language.err = ""
    /\ parked' = [expr |-> expr, backtrack |-> backtrack, pos |-> pos,
                  stack |-> stack, pstate |-> pstate, tree |-> tree,
                  perror |-> perror]
    /\ expr' = parked.expr
    /\ backtrack' = parked.backtrack
    /\ pos' = parked.pos
    /\ stack' = parked.stack
    /\ pstate' = parked.pstate
    /\ tree' = parked.tree
    /\ perror' = parked.perror
    /\ UNCHANGED <<originalStrings, unparseArg, unparsed, lspec, language>>
    /\ UNCHANGED arithVars

BuilderNext ==
    \/ Build
    \/ Parse
    \/ Switch
    \/ TryMatchSubgroup
    \/ TryMatchEnd
    \/ TryMatchAether
    \/ EndOfExpression
    \/ Unwind

SpecBuilder == BuilderInit /\ [][BuilderNext]_vars

\* the steps of getGroup
GetGroup ==
    \/ TryMatchSubgroup
    \/ TryMatchEnd
    \/ TryMatchAether
    \/ EndOfExpression
    \/ Unwind

\* one call at a time
CallNext ==
    \/ Build
    \/ Parse
    \/ GetGroup

\* recursiveParser is synchronous: a call that has started runs on until it
\* returns or throws
SpecCall == BuilderInit /\ [][CallNext]_vars /\ WF_vars(GetGroup)

(***************************************************************************)
(* Properties of the parser and the unparser                               *)
(***************************************************************************)
\* a marker matches a non-empty string of text at p (stated on the text itself)
MatchesAt(rx, text, p) ==
    IF rx.kind = "run"
    THEN p < Len(text) /\ text[p + 1] \in rx.chars
    ELSE \E i \in 1..Len(rx.alts) :
            /\ Len(rx.alts[i]) > 0
            /\ p + Len(rx.alts[i]) <= Len(text)
            /\ \A j \in 1..Len(rx.alts[i]) : text[p + j] = rx.alts[i][j]

\* no candidate of the frame's current set, nor its end marker, nor the aether
NothingMatchesAt(f, p) ==
    /\ \A i \in 1..Len(f.nextGroups) :
          ~MatchesAt(Terms[f.nextGroups[i]].start, expr, p)
    /\ IsRoot(f.group) \/ ~MatchesAt(Terms[f.group].end, expr, p)
    /\ ~MatchesAt(Terms[Aether].start, expr, p)

\* how far the frame is through one pass of the loop body
Rank(f) ==
    CASE f.phase = "subs" -> f.k
      [] f.phase = "end" -> Len(f.nextGroups) + 1
      [] f.phase = "aether" -> Len(f.nextGroups) + 2
      [] OTHER -> Len(f.nextGroups) + 3

InLoop == pstate = "parsing" /\ Top.phase # "throw"

\* C1: for every text the parser accepts, unparse of what parse returned is the
\* text itself (whether the caller hands over the tree or its node list).
C1_RoundTrip ==
    pstate = "unparsed" => unparsed[1] = [threw |-> "", str |-> expr]

\* C9 (as claimed, whatever the backtrack option): when the input is exhausted
\* while a group other than the root is open, the parse fails with the
\* unterminated-group error that carries the group's start marker and opening
\* offset, and no tree is returned; the root returns only at the end of input.
C9_UnterminatedAlways ==
    [][/\ (InLoop /\ Len(stack) > 1 /\ pos >= Len(expr))
            => /\ pstate' = "parsing"
               /\ stack'[Len(stack')].phase = "throw"
               /\ stack'[Len(stack')].err =
                     [error |-> "Unexpected end of expression",
                      at |-> Top.startPosition, marker |-> Top.start]
       /\ (pstate = "parsing" /\ Top.phase = "throw"
             /\ Top.err.error = "Unexpected end of expression")
            => /\ pstate' = "threw"
               /\ perror' = <<[error |-> "Unexpected end of expression",
                               at |-> Top.startPosition, marker |-> Top.start]>>
               /\ tree' = <<>>
       /\ (pstate = "parsing" /\ pstate' = "returned")
            => /\ Len(stack) = 1
               /\ pos = Len(expr)
               /\ tree'[1].type = "result"
               /\ tree'[1].length = Len(expr)
      ]_vars

\* C9 (amended): the same, with backtrack off.
C9_Unterminated ==
    [][/\ (~backtrack /\ InLoop /\ Len(stack) > 1 /\ pos >= Len(expr))
            => /\ pstate' = "parsing"
               /\ stack'[Len(stack')].phase = "throw"
               /\ stack'[Len(stack')].err =
                     [error |-> "Unexpected end of expression",
                      at |-> Top.startPosition, marker |-> Top.start]
       /\ (~backtrack /\ pstate = "parsing" /\ Top.phase = "throw"
             /\ Top.err.error = "Unexpected end of expression")
            => /\ pstate' = "threw"
               /\ perror' = <<[error |-> "Unexpected end of expression",
                               at |-> Top.startPosition, marker |-> Top.start]>>
               /\ tree' = <<>>
       /\ (pstate = "parsing" /\ pstate' = "returned")
            => /\ Len(stack) = 1
               /\ pos = Len(expr)
               /\ tree'[1].type = "result"
               /\ tree'[1].length = Len(expr)
      ]_vars

\* a nested group was left open at the end of the input and the parse threw
C9_Witness ==
    /\ ~backtrack
    /\ pstate = "threw"
    /\ tree = <<>>
    /\ perror = <<[error |-> "Unexpected end of expression", at |-> 2,
                   marker |-> <<"(">>]>>

\* C10: with backtrack off, when input remains at offset N and no candidate of
\* the current set, nor the open group's end marker, nor the aether matches
\* there, the loop body runs through to the throw without consuming anything,
\* the parse fails with a syntax error reporting N, and no tree is returned.
C10_SyntaxError ==
    [][/\ (~backtrack /\ InLoop /\ pos < Len(expr) /\ NothingMatchesAt(Top, pos))
            => /\ pstate' = "parsing"
               /\ pos' = pos
               /\ Len(stack') = Len(stack)
               /\ Rank(stack'[Len(stack')]) > Rank(Top)
               /\ stack'[Len(stack')].phase = "throw"
                    => stack'[Len(stack')].err =
                          [error |-> "Syntax error", at |-> pos, marker |-> <<>>]
       /\ (~backtrack /\ pstate = "parsing" /\ Top.phase = "throw"
             /\ Top.err.error = "Syntax error")
            => /\ pstate' = "threw"
               /\ perror' = <<[error |-> "Syntax error", at |-> pos,
                               marker |-> <<>>]>>
               /\ tree' = <<>>
       /\ pstate' = "threw" => tree' = <<>>
      ]_vars

\* a syntax error inside a nested group, after part of the text was consumed
C10_Witness ==
    /\ ~backtrack
    /\ pstate = "threw"
    /\ tree = <<>>
    /\ perror = <<[error |-> "Syntax error", at |-> 2, marker |-> <<>>]>>
    /\ expr[1] = "("

(***************************************************************************)
(* compileTree.  One record shape serves the parse-tree nodes and the      *)
(* Evaluatable objects, which the reducers keep in the same list:          *)
(*   ev      instanceof Evaluatable                                        *)
(*   cls     the constructor ("" for a parse-tree node)                    *)
(*   type    node.type (an Evaluatable takes the type of its node)         *)
(*   content node.content (undefined, here "", on an Evaluatable)          *)
(*   grp     the parse-tree node has a groups array                        *)
(*   name    Symbol.name, Member.prop, or the operator of an operation     *)
(*   kids    the operands                                                  *)
(* A thrown exception is a node of cls "Error" carrying the message.       *)
(***************************************************************************)
JsVal(t, n, s) == [t |-> t, n |-> n, s |-> s]

Undefined == JsVal("undefined", 0, "")

Null == JsVal("null", 0, "")

NaN == JsVal("NaN", 0, "")

Num(n) == JsVal("number", n, "")

Bool(b) == JsVal("boolean", IF b THEN 1 ELSE 0, "")

Str(s) == JsVal("string", 0, s)

Ref(id) == JsVal("object", id, "")

Fn(f) == JsVal("function", 0, f)

Node(ev, cls, type, content, grp, groups, name, val, kids, colon) ==
    [ev |-> ev, cls |-> cls, type |-> type, content |-> content, grp |-> grp,
     groups |-> groups, name |-> name, val |-> val, kids |-> kids,
     colon |-> colon]

\* parse-tree nodes, as resultFactory builds them
Entity(type, content) ==
    Node(FALSE, "", type, content, FALSE, <<>>, "", Undefined, <<>>, FALSE)

Group(type, groups) ==
    Node(FALSE, "", type, "", TRUE, groups, "", Undefined, <<>>, FALSE)

\* prev or next at the ends of the list
NullNode == Node(FALSE, "Null", "", "", FALSE, <<>>, "", Undefined, <<>>, FALSE)

Error(msg) ==
    Node(FALSE, "Error", "", msg, FALSE, <<>>, "", Undefined, <<>>, FALSE)

IsNull(n) == n.cls = "Null"

IsError(n) == n.cls = "Error"

\* Evaluatable.call(this, node)
Evaluatable(cls, node, name, val, kids, colon) ==
    Node(TRUE, cls, node.type, "", FALSE, <<>>, name, val, kids, colon)

FirstError(ns) ==
    IF \E i \in 1..Len(ns) : IsError(ns[i])
    THEN ns[CHOOSE i \in 1..Len(ns) :
               IsError(ns[i]) /\ \A j \in 1..(i - 1) : ~IsError(ns[j])]
    ELSE NullNode

\* Reducer uses this to determine which elements to remove
prevCurr == 1

curr_ == 2

currNext == 3

prevCurrNext == 4

Merge(direction, result) == [direction |-> direction, result |-> result]

NoMerge == Merge(0, NullNode)

\* Operator precedence, as listed
precedence ==
    << [level |-> 19, direction |-> 1,
        items |-> <<"mapSubexpressions", "mapSymbols", "mapValues">>],
       [level |-> 18, direction |-> 1,
        items |-> <<"mapMembers", "mapIndexes", "mapCalls">>],
       [level |-> 15, direction |-> 0,
        items |-> <<"mapLogicalNot", "mapBitwiseNot", "mapValueSign">>],
       [level |-> 14, direction |-> 1, items |-> <<"mapMultiplicative">>],
       [level |-> 13, direction |-> 1, items |-> <<"mapAdditive">>],
       [level |-> 12, direction |-> 1, items |-> <<"mapShifts">>],
       [level |-> 11, direction |-> 1, items |-> <<"mapRelational">>],
       [level |-> 10, direction |-> 1, items |-> <<"mapEquality">>],
       [level |-> 9, direction |-> 1, items |-> <<"mapBitwiseAnd">>],
       [level |-> 8, direction |-> 1, items |-> <<"mapBitwiseXor">>],
       [level |-> 7, direction |-> 1, items |-> <<"mapBitwiseOr">>],
       [level |-> 6, direction |-> 1, items |-> <<"mapLogicalAnd">>],
       [level |-> 5, direction |-> 1, items |-> <<"mapLogicalOr">>],
       [level |-> 4, direction |-> 0, items |-> <<"mapTernaryOperation">>],
       [level |-> 0, direction |-> 1, items |-> <<"mapSequence">>] >>

\* _.sortByOrder(['level', 'direction'], [false, false]): descending
RECURSIVE sortByOrder(_)
sortByOrder(list) ==
    IF Len(list) = 0 THEN <<>>
    ELSE LET Before(a, b) ==
                 \/ a.level > b.level
                 \/ a.level = b.level /\ a.direction > b.direction
             i == CHOOSE i \in 1..Len(list) :
                     /\ \A j \in 1..Len(list) : ~Before(list[j], list[i])
                     /\ \A j \in 1..(i - 1) : Before(list[i], list[j])
         IN  <<list[i]>> \o
             sortByOrder(SubSeq(list, 1, i - 1) \o SubSeq(list, i + 1, Len(list)))

passes == sortByOrder(precedence)

\* parseFloat / parseInt of the literals the model draws
parseFloat(content) ==
    CASE content = "0" -> Num(0)
      [] content = "1" -> Num(1)
      [] content = "2" -> Num(2)
      [] content = "3" -> Num(3)
      [] content = "4" -> Num(4)
      [] content = "5" -> Num(5)
      [] content = "6" -> Num(6)
      [] content = "7" -> Num(7)
      [] content = "8" -> Num(8)
      [] content = "9" -> Num(9)
      [] OTHER -> NaN

RECURSIVE Expression(_)
RECURSIVE reductionIteratorLeftToRight(_, _, _)
RECURSIVE reductionIteratorRightToLeft(_, _, _)
RECURSIVE reduceAll(_, _)
RECURSIVE firstMerge(_, _, _, _, _)
RECURSIVE walker(_, _, _, _)

\* operands are wrapped by new Expression(), which throws on a node it cannot
\* compile; the constructor then throws too
Operation(cls, node, name, operands, colon) ==
    LET kids == [i \in 1..Len(operands) |-> Expression(operands[i])]
    IN  IF FirstError(kids) # NullNode THEN FirstError(kids)
        ELSE Evaluatable(cls, node, name, Undefined, kids, colon)

Symbol(node) == Evaluatable("Symbol", node, node.content, Undefined, <<>>, FALSE)

Value(node, value) == Evaluatable("Value", node, "", value, <<>>, FALSE)

\* left is kept as it is; right.name is the property
Member(node, left, right) ==
    Evaluatable("Member", node, right.name, Undefined, <<left>>, FALSE)

Index(node, left, inner) ==
    LET index == Expression(inner)
    IN  IF IsError(index) THEN index
        ELSE Evaluatable("Index", node, "", Undefined, <<left, index>>, FALSE)

Call(node, left, inner) ==
    LET params == Expression(inner)
    IN  IF IsError(params) THEN params
        ELSE Evaluatable("Call", node, "", Undefined, <<left, params>>, FALSE)

operatorsPrefix == {"-", "+", "!", "~", "++", "--"}

PrefixUnaryOperation(node, inner) ==
    LET made == Operation("PrefixUnaryOperation", node, node.content,
                          <<inner>>, FALSE)
    IN  IF IsError(made) THEN made
        ELSE IF node.content \notin operatorsPrefix
        THEN Error("Could not resolve operator")
        ELSE made

operatorsBinary ==
    {"*", "/", "%", "+", "-", "<<", ">>", ">>>", "<", "<=", ">", ">=", "==",
     "!=", "===", "!==", "&", "^", "|", "&&", "||", ","}

BinaryOperation(node, left, right) ==
    LET made == Operation("BinaryOperation", node, node.content,
                          <<left, right>>, FALSE)
    IN  IF IsError(made) THEN made
        ELSE IF node.content \notin operatorsBinary
        THEN Error("Could not resolve operator")
        ELSE made

\* kids: <<condition, trueValue, falseValue>>; the ':' half has no condition
TernaryOperation(node, left, right) ==
    IF right.cls = "TernaryOperation" /\ node.content = "?" /\ right.colon
    THEN LET condition == Expression(left)
         IN  IF IsError(condition) THEN condition
             ELSE Evaluatable("TernaryOperation", node, "?", Undefined,
                              <<condition, right.kids[2], right.kids[3]>>, FALSE)
    ELSE IF node.content = ":"
    THEN LET trueValue == Expression(left)
             falseValue == Expression(right)
         IN  IF IsError(trueValue) THEN trueValue
             ELSE IF IsError(falseValue) THEN falseValue
             ELSE Evaluatable("TernaryOperation", node, ":", Undefined,
                              <<NullNode, trueValue, falseValue>>, TRUE)
    ELSE Error("Incomplete ternary (missing \":\")")

IsOperator(c, contents) == c.type = "operator" /\ c.content \in contents

Infix(c, prev, next, contents) ==
    IF IsNull(prev) \/ IsNull(next) \/ ~IsOperator(c, contents) THEN NoMerge
    ELSE Merge(prevCurrNext, BinaryOperation(c, prev, next))

\* Parse tree => Expression tree translators
walker(w, c, prev, next) ==
    CASE w = "mapSubexpressions" ->
           IF c.type # "parentheses" THEN NoMerge
           ELSE Merge(curr_, Expression(c))
      [] w = "mapSymbols" ->
           IF c.type # "identifier" THEN NoMerge ELSE Merge(curr_, Symbol(c))
      [] w = "mapValues" ->
           IF c.type = "decimal" THEN Merge(curr_, Value(c, parseFloat(c.content)))
           ELSE NoMerge
      [] w = "mapMembers" ->
           IF \/ IsNull(prev) \/ IsNull(next)
              \/ c.type # "operator" \/ ~prev.ev
              \/ c.content # "." \/ next.type # "identifier"
           THEN NoMerge
           ELSE Merge(prevCurrNext, Member(c, prev, next))
      [] w = "mapIndexes" ->
           IF c.type # "index" \/ ~prev.ev THEN NoMerge
           ELSE Merge(prevCurr, Index(c, prev, c))
      [] w = "mapCalls" ->
           IF c.type # "call" \/ ~prev.ev THEN NoMerge
           ELSE Merge(prevCurr, Call(c, prev, c))
      [] w = "mapLogicalNot" ->
           IF IsNull(next) \/ ~IsOperator(c, {"!"}) THEN NoMerge
           ELSE Merge(currNext, PrefixUnaryOperation(c, next))
      [] w = "mapBitwiseNot" ->
           IF IsNull(next) \/ ~IsOperator(c, {"~"}) THEN NoMerge
           ELSE Merge(currNext, PrefixUnaryOperation(c, next))
      [] w = "mapValueSign" ->
           IF \/ ~IsNull(prev) /\ prev.type # "operator"
              \/ IsNull(next)
              \/ ~IsOperator(c, {"+", "-"})
           THEN NoMerge
           ELSE Merge(currNext, PrefixUnaryOperation(c, next))
      [] w = "mapMultiplicative" -> Infix(c, prev, next, {"/", "*", "%"})
      [] w = "mapAdditive" -> Infix(c, prev, next, {"+", "-"})
      [] w = "mapShifts" -> Infix(c, prev, next, {"<<", ">>", ">>>"})
      [] w = "mapRelational" -> Infix(c, prev, next, {"<", "<=", ">", ">="})
      [] w = "mapEquality" -> Infix(c, prev, next, {"==", "!=", "===", "!=="})
      [] w = "mapBitwiseAnd" -> Infix(c, prev, next, {"&"})
      [] w = "mapBitwiseXor" -> Infix(c, prev, next, {"^"})
      [] w = "mapBitwiseOr" -> Infix(c, prev, next, {"|"})
      [] w = "mapLogicalAnd" -> Infix(c, prev, next, {"&&"})
      [] w = "mapLogicalOr" -> Infix(c, prev, next, {"||"})
      [] w = "mapTernaryOperation" ->
           IF IsNull(prev) \/ IsNull(next) \/ ~IsOperator(c, {":", "?"})
           THEN NoMerge
           ELSE Merge(prevCurrNext, TernaryOperation(c, prev, next))
      [] w = "mapSequence" -> Infix(c, prev, next, {","})
      [] OTHER -> NoMerge

\* _(walkers).map(...).filter().first(): the first walker that gives a merge
mergeOrNext(m, walkers, k, c, prev, next) ==
    IF m.direction # 0 THEN m ELSE firstMerge(walkers, k + 1, c, prev, next)

firstMerge(walkers, k, c, prev, next) ==
    IF k > Len(walkers) THEN NoMerge
    ELSE mergeOrNext(walker(walkers[k], c, prev, next), walkers, k, c, prev,
                     next)

\* nodes.splice(at, count, item), at counted from 0
Splice(nodes, at, count, item) ==
    SubSeq(nodes, 1, at) \o <<item>> \o SubSeq(nodes, at + count + 1, Len(nodes))

Reduced(err, nodes) == [err |-> err, nodes |-> nodes]

\* the body of the left-to-right loop once the walkers have answered at i
mergeLeftToRight(nodes, walkers, i, merge) ==
    IF merge.direction = 0
    THEN reductionIteratorLeftToRight(nodes, walkers, i + 1)
    ELSE IF IsError(merge.result) THEN Reduced(merge.result, nodes)
    ELSE IF merge.direction = prevCurr
    THEN reductionIteratorLeftToRight(
             Splice(nodes, i - 1, 2, merge.result), walkers, i)
    ELSE IF merge.direction = currNext
    THEN reductionIteratorLeftToRight(
             Splice(nodes, i, 2, merge.result), walkers, i)
    ELSE IF merge.direction = curr_
    THEN reductionIteratorLeftToRight(
             Splice(nodes, i, 1, merge.result), walkers, i + 1)
    ELSE reductionIteratorLeftToRight(
             Splice(nodes, i - 1, 3, merge.result), walkers, i)

\* Pass over node list from left to right, splicing as needed (i from 0)
reductionIteratorLeftToRight(nodes, walkers, i) ==
    IF i >= Len(nodes) THEN Reduced(NullNode, nodes)
    ELSE LET prev == IF i > 0 THEN nodes[i] ELSE NullNode
             c == nodes[i + 1]
             next == IF i < Len(nodes) - 1 THEN nodes[i + 2] ELSE NullNode
         IN  mergeLeftToRight(nodes, walkers, i,
                              firstMerge(walkers, 1, c, prev, next))

\* the body of the right-to-left loop once the walkers have answered at i
mergeRightToLeft(nodes, walkers, i, merge) ==
    IF merge.direction = 0
    THEN reductionIteratorRightToLeft(nodes, walkers, i - 1)
    ELSE IF IsError(merge.result) THEN Reduced(merge.result, nodes)
    ELSE IF merge.direction = prevCurr
    THEN reductionIteratorRightToLeft(
             Splice(nodes, i - 1, 2, merge.result), walkers, i - 2)
    ELSE IF merge.direction = currNext
    THEN reductionIteratorRightToLeft(
             Splice(nodes, i, 2, merge.result), walkers, i)
    ELSE IF merge.direction = curr_
    THEN reductionIteratorRightToLeft(
             Splice(nodes, i, 1, merge.result), walkers, i + 1)
    ELSE reductionIteratorRightToLeft(
             Splice(nodes, i - 1, 3, merge.result), walkers, i - 2)

\* variant: the pass scans from the left end
reductionIteratorForward(nodes, walkers, i) ==
    reductionIteratorLeftToRight(nodes, walkers, 0)

\* Pass over node list from right to left, splicing as needed (i from 0)
reductionIteratorRightToLeft(nodes, walkers, i) ==
    IF i < 0 THEN Reduced(NullNode, nodes)
    ELSE LET prev == IF i > 0 THEN nodes[i] ELSE NullNode
             c == nodes[i + 1]
             next == IF i < Len(nodes) - 1 THEN nodes[i + 2] ELSE NullNode
         IN  mergeRightToLeft(nodes, walkers, i,
                              firstMerge(walkers, 1, c, prev, next))

\* iterator(nodes, oplist.items): one pass in the direction of group k
iterator(nodes, k) ==
    IF passes[k].direction = 1
    THEN reductionIteratorLeftToRight(nodes, passes[k].items, 0)
    ELSE reductionIteratorRightToLeft(nodes, passes[k].items, Len(nodes) - 1)

\* the passes after number k, on the list r that pass k left
reduceNext(r, k) == IF IsError(r.err) THEN r ELSE reduceAll(r.nodes, k + 1)

\* the passes from number k on, each on the list the one before left
reduceAll(nodes, k) ==
    IF k > Len(passes) THEN Reduced(NullNode, nodes)
    ELSE reduceNext(iterator(nodes, k), k)

\* variant: the first node left is taken as the root
expressionOfFirst(node, r) ==
    IF IsError(r.err) THEN r.err
    ELSE IF Len(r.nodes) = 0 \/ ~r.nodes[1].ev
    THEN Error("Failed to parse expression")
    ELSE Evaluatable("Expression", node, "", Undefined, <<r.nodes[1]>>, FALSE)

\* the end of new Expression(node): one Evaluatable must be left
expressionOf(node, r) ==
    IF IsError(r.err) THEN r.err
    ELSE IF Len(r.nodes) # 1 \/ ~r.nodes[1].ev
    THEN Error("Failed to parse expression")
    ELSE Evaluatable("Expression", node, "", Undefined, <<r.nodes[1]>>, FALSE)

\* new Expression(node): an Evaluatable is returned as it is
Expression(node) ==
    IF node.ev THEN node
    ELSE IF ~node.grp THEN Error("TypeError")
    ELSE expressionOf(node, reduceAll(node.groups, 1))

\* compileTree(tree, options): new Expression(tree)
compileTree(groups) == Expression(Group("result", groups))

(***************************************************************************)
(* Host values and operators.  Numbers are integers; Other stands for a    *)
(* value outside the modelled range (a result the model does not track).   *)
(* An object is a function from property keys (strings) to values; a       *)
(* function object has the key "[[Call]]" naming the host function.        *)
(***************************************************************************)
Other == JsVal("other", 0, "")

Infinity == JsVal("Infinity", 1, "")

CallKey == "[[Call]]"

Digit(d) == CASE d = 0 -> "0" [] d = 1 -> "1" [] d = 2 -> "2" [] d = 3 -> "3"
              [] d = 4 -> "4" [] d = 5 -> "5" [] d = 6 -> "6" [] d = 7 -> "7"
              [] d = 8 -> "8" [] OTHER -> "9"

RECURSIVE Decimal(_)
Decimal(n) ==
    IF n < 0 THEN "-" \o Decimal(0 - n)
    ELSE IF n < 10 THEN Digit(n)
    ELSE Decimal(n \div 10) \o Digit(n % 10)

\* ToString, as used for property keys
ToKey(v) ==
    CASE v.t = "string" -> v.s
      [] v.t = "number" -> Decimal(v.n)
      [] v.t = "boolean" -> IF v.n = 1 THEN "true" ELSE "false"
      [] v.t = "object" -> "[object Object]"
      [] OTHER -> v.t

ToBoolean(v) ==
    CASE v.t \in {"undefined", "null", "NaN"} -> FALSE
      [] v.t \in {"number", "boolean"} -> v.n # 0
      [] v.t = "string" -> v.s # ""
      [] OTHER -> TRUE

ToNumber(v) ==
    CASE v.t = "number" -> v
      [] v.t = "boolean" -> Num(v.n)
      [] v.t = "null" -> Num(0)
      [] v.t \in {"undefined", "NaN", "object"} -> NaN
      [] OTHER -> Other

RECURSIVE Bitwise(_, _, _)
Bitwise(op, a, b) ==
    IF a = 0 /\ b = 0 THEN 0
    ELSE LET x == a % 2
             y == b % 2
             bit == CASE op = "&" -> IF x = 1 /\ y = 1 THEN 1 ELSE 0
                      [] op = "|" -> IF x = 1 \/ y = 1 THEN 1 ELSE 0
                      [] OTHER -> IF x # y THEN 1 ELSE 0
         IN  bit + 2 * Bitwise(op, a \div 2, b \div 2)

RECURSIVE Pow2(_)
Pow2(n) == IF n = 0 THEN 1 ELSE 2 * Pow2(n - 1)

SmallInt == 0..1023

\* ToInt32 of the operands: NaN is 0
Int32(v) == IF v.t = "NaN" THEN Num(0) ELSE v

StrictEquals(a, b) == a.t # "NaN" /\ a = b

LooseEquals(a, b) ==
    IF a.t = b.t THEN StrictEquals(a, b)
    ELSE IF a.t \in {"null", "undefined"} /\ b.t \in {"null", "undefined"}
    THEN TRUE
    ELSE IF a.t \in {"number", "boolean"} /\ b.t \in {"number", "boolean"}
    THEN a.n = b.n
    ELSE FALSE

\* a << b
Shl(x, y) == IF y < 20 THEN Num(x * Pow2(y)) ELSE Other

\* the host's operator of a symbol on two numbers (both shifts to the right
\* agree on the operands drawn, which are not negative)
Arithmetic(key, x, y) ==
    CASE key = "*" -> Num(x * y)
      [] key = "/" -> IF y # 0 /\ x % y = 0 THEN Num(x \div y) ELSE Other
      [] key = "%" -> IF y > 0 /\ x >= 0 THEN Num(x % y) ELSE Other
      [] key = "+" -> Num(x + y)
      [] key = "-" -> Num(x - y)
      [] key = "<<" -> Shl(x, y)
      [] key = ">>" -> IF y < 20 THEN Num(x \div Pow2(y)) ELSE Other
      [] key = ">>>" -> IF y < 20 THEN Num(x \div Pow2(y)) ELSE Other
      [] key = "&" -> Num(Bitwise("&", x, y))
      [] key = "^" -> Num(Bitwise("^", x, y))
      [] OTHER -> Num(Bitwise("|", x, y))

Relation(key, x, y) ==
    CASE key = "<" -> x < y
      [] key = "<=" -> x <= y
      [] key = ">" -> x > y
      [] OTHER -> x >= y

Numeric(key, a, b) ==
    LET x == ToNumber(a)
        y == ToNumber(b)
    IN  IF x.t = "NaN" \/ y.t = "NaN" THEN NaN
        ELSE IF x.t # "number" \/ y.t # "number" THEN Other
        ELSE Arithmetic(key, x.n, y.n)

Integral(key, a, b) ==
    LET x == Int32(ToNumber(a))
        y == Int32(ToNumber(b))
    IN  IF x.t # "number" \/ y.t # "number" THEN Other
        ELSE IF x.n \notin SmallInt \/ y.n \notin SmallInt THEN Other
        ELSE Arithmetic(key, x.n, y.n)

Compare(key, a, b) ==
    LET x == ToNumber(a)
        y == ToNumber(b)
    IN  IF a.t = "string" \/ b.t = "string" THEN Other
        ELSE IF x.t = "NaN" \/ y.t = "NaN" THEN Bool(FALSE)
        ELSE IF x.t # "number" \/ y.t # "number" THEN Other
        ELSE Bool(Relation(key, x.n, y.n))

\* the host's binary operator of a symbol, applied to two values
HostOperator(op, a, b) ==
    CASE op \in {"*", "/", "%", "-"} -> Numeric(op, a, b)
      [] op = "+" -> IF a.t = "string" \/ b.t = "string"
                     THEN Str(ToKey(a) \o ToKey(b))
                     ELSE Numeric(op, a, b)
      [] op \in {"<<", ">>", ">>>", "&", "^", "|"} -> Integral(op, a, b)
      [] op \in {"<", "<=", ">", ">="} -> Compare(op, a, b)
      [] op = "==" -> Bool(LooseEquals(a, b))
      [] op = "!=" -> Bool(~LooseEquals(a, b))
      [] op = "===" -> Bool(StrictEquals(a, b))
      [] op = "!==" -> Bool(~StrictEquals(a, b))
      [] op = "&&" -> IF ToBoolean(a) THEN b ELSE a
      [] op = "||" -> IF ToBoolean(a) THEN a ELSE b
      [] OTHER -> b

\* BinaryOperation's operators table: the operator in the body of the
\* function held under each key ('>>' holds a << b)
operators == [key \in operatorsBinary |-> IF key = ">>" THEN "<<" ELSE key]

\* operators[node.content], applied to two values
BinaryOperator(op, a, b) == HostOperator(operators[op], a, b)

\* PrefixUnaryOperation's operators table
PrefixOperator(op, a) ==
    LET x == ToNumber(a)
    IN  CASE op = "!" -> Bool(~ToBoolean(a))
          [] op = "-" -> IF x.t = "number" THEN Num(0 - x.n) ELSE x
          [] op = "+" -> x
          [] op = "~" -> IF Int32(x).t = "number" THEN Num(0 - Int32(x).n - 1)
                         ELSE Other
          [] op = "++" -> IF x.t = "number" THEN Num(x.n + 1) ELSE x
          [] OTHER -> IF x.t = "number" THEN Num(x.n - 1) ELSE x

(***************************************************************************)
(* evaluate, evaluateList and set of the Evaluatable classes.  A call      *)
(* threads the heap and the log of host-function invocations; err is the   *)
(* message of the exception thrown, "" when none was.                      *)
(***************************************************************************)
Result(v, h, log, err) == [v |-> v, heap |-> h, log |-> log, err |-> err]

Thrown(r, err) == Result(Undefined, r.heap, r.log, err)

IsNullish(v) == v.t \in {"undefined", "null"}

\* variant: object[name] !== undefined
InByValue(h, id, name) ==
    name \in DOMAIN h[id] /\ h[id][name] # Undefined

\* name in object
In(h, id, name) == name \in DOMAIN h[id]

\* object[key]
Get(h, v, key) ==
    IF v.t = "object" /\ key \in DOMAIN h[v.n] THEN h[v.n][key]
    ELSE Undefined

\* variant: the assignment lands on a copy of the object
PutOnCopy(h, v, key, value) == h

\* object[key] = value (on a primitive the assignment is dropped)
Put(h, v, key, value) ==
    IF v.t = "object" THEN [h EXCEPT ![v.n] = (key :> value) @@ @]
    ELSE h

IsCallable(h, v) == v.t = "object" /\ CallKey \in DOMAIN h[v.n]

\* the host functions of the scope: both leave the heap alone; "f" returns
\* its first argument, "g" the number of its arguments
Apply(h, fn, args) ==
    IF h[fn.n][CallKey].s = "f"
    THEN IF Len(args) > 0 THEN args[1] ELSE Undefined
    ELSE Num(Len(args))

Invocation(h, fn, this, args) ==
    [fn |-> h[fn.n][CallKey].s, this |-> this, args |-> args]

RECURSIVE evaluate(_, _, _, _)
RECURSIVE evaluateList(_, _, _, _)

\* variant: every callee is invoked unbound
callObjectUnbound(n, scope, strictMode, ar) ==
    Result(Undefined, ar.heap, ar.log, "")

\* func.base.evaluate(scope) when func is a Member, undefined otherwise
callObject(n, scope, strictMode, ar) ==
    IF n.kids[1].cls = "Member"
    THEN evaluate(n.kids[1].kids[1], scope, strictMode, ar)
    ELSE Result(Undefined, ar.heap, ar.log, "")

\* fn.apply(obj, ar)
callApply(fn, ar, obj) ==
    IF fn.err # "" THEN fn
    ELSE IF ar.err # "" THEN Thrown(ar, ar.err)
    ELSE IF obj.err # "" THEN obj
    ELSE IF ~IsCallable(obj.heap, fn.v) THEN Thrown(obj, "TypeError")
    ELSE Result(Apply(obj.heap, fn.v, ar.v), obj.heap,
                Append(obj.log, Invocation(obj.heap, fn.v, obj.v, ar.v)), "")

\* variant: both branches are evaluated, the true branch first
ternaryBranchBoth(n, scope, strictMode, condition) ==
    evaluate(n.kids[3], scope, strictMode,
             evaluate(n.kids[2], scope, strictMode, condition))

\* (condition.evaluate(scope) ? trueValue : falseValue).evaluate(scope)
ternaryBranch(n, scope, strictMode, condition) ==
    IF condition.err # "" THEN condition
    ELSE evaluate(IF ToBoolean(condition.v) THEN n.kids[2] ELSE n.kids[3],
                  scope, strictMode, condition)

\* Evaluatable.prototype.evaluateList
defaultEvaluateList(n, scope, strictMode, st) ==
    LET r == evaluate(n, scope, strictMode, st)
    IN  Result(<<r.v>>, r.heap, r.log, r.err)

\* BinaryOperation compares its operator, a function of the table, with ','
operatorIsComma(n) == StrictEquals(Fn(n.name), Str(","))

evaluateList(n, scope, strictMode, st) ==
    IF n.cls = "BinaryOperation" /\ operatorIsComma(n)
    THEN LET l == evaluateList(n.kids[1], scope, strictMode, st)
             r == evaluateList(n.kids[2], scope, strictMode, l)
         IN  IF l.err # "" THEN l
             ELSE IF r.err # "" THEN r
             ELSE Result(l.v \o r.v, r.heap, r.log, "")
    ELSE defaultEvaluateList(n, scope, strictMode, st)

evaluate(n, scope, strictMode, st) ==
    CASE n.cls = "Symbol" ->
           IF strictMode /\ ~In(st.heap, scope, n.name)
           THEN Thrown(st, "Undefined variable")
           ELSE Result(Get(st.heap, Ref(scope), n.name), st.heap, st.log, "")
      [] n.cls = "Value" -> Result(n.val, st.heap, st.log, "")
      [] n.cls = "Expression" -> evaluate(n.kids[1], scope, strictMode, st)
      [] n.cls = "Member" ->
           LET base == evaluate(n.kids[1], scope, strictMode, st)
           IN  IF base.err # "" THEN base
               ELSE IF IsNullish(base.v) THEN Thrown(base, "TypeError")
               ELSE Result(Get(base.heap, base.v, n.name), base.heap, base.log, "")
      [] n.cls = "Index" ->
           LET base == evaluate(n.kids[1], scope, strictMode, st)
               index == evaluate(n.kids[2], scope, strictMode, base)
           IN  IF base.err # "" THEN base
               ELSE IF index.err # "" THEN index
               ELSE IF IsNullish(base.v) THEN Thrown(index, "TypeError")
               ELSE Result(Get(index.heap, base.v, ToKey(index.v)),
                           index.heap, index.log, "")
      [] n.cls = "Call" ->
           LET fn == evaluate(n.kids[1], scope, strictMode, st)
               ar == evaluateList(n.kids[2], scope, strictMode, fn)
           IN  callApply(fn, ar, callObject(n, scope, strictMode, ar))
      [] n.cls = "TernaryOperation" ->
           IF n.colon THEN Thrown(st, "Incomplete ternary (missing \"?\")")
           ELSE ternaryBranch(n, scope, strictMode,
                              evaluate(n.kids[1], scope, strictMode, st))
      [] n.cls = "PrefixUnaryOperation" ->
           LET operand == evaluate(n.kids[1], scope, strictMode, st)
           IN  IF operand.err # "" THEN operand
               ELSE Result(PrefixOperator(n.name, operand.v), operand.heap,
                           operand.log, "")
      [] n.cls = "BinaryOperation" ->
           LET left == evaluate(n.kids[1], scope, strictMode, st)
               right == evaluate(n.kids[2], scope, strictMode, left)
           IN  IF left.err # "" THEN left
               ELSE IF right.err # "" THEN right
               ELSE Result(BinaryOperator(n.name, left.v, right.v), right.heap,
                           right.log, "")
      [] OTHER -> Thrown(st, "Expression cannot be evaluated")

\* base[name] = value
setMember(base, name, value) ==
    IF base.err # "" THEN base
    ELSE IF IsNullish(base.v) THEN Thrown(base, "TypeError")
    ELSE Result(Undefined, Put(base.heap, base.v, name, value), base.log, "")

\* base[index] = value
setIndex(base, index, value) ==
    IF base.err # "" THEN base
    ELSE IF index.err # "" THEN index
    ELSE IF IsNullish(base.v) THEN Thrown(index, "TypeError")
    ELSE Result(Undefined, Put(index.heap, base.v, ToKey(index.v), value),
                index.log, "")

RECURSIVE set(_, _, _, _, _)
set(n, scope, strictMode, value, st) ==
    CASE n.cls = "Symbol" ->
           IF strictMode /\ ~In(st.heap, scope, n.name)
           THEN Thrown(st, "Undefined variable")
           ELSE Result(Undefined, Put(st.heap, Ref(scope), n.name, value),
                       st.log, "")
      [] n.cls = "Expression" -> set(n.kids[1], scope, strictMode, value, st)
      [] n.cls = "Member" ->
           setMember(evaluate(n.kids[1], scope, strictMode, st), n.name, value)
      [] n.cls = "Index" ->
           LET base == evaluate(n.kids[1], scope, strictMode, st)
           IN  setIndex(base, evaluate(n.kids[2], scope, strictMode, base),
                        value)
      [] OTHER -> Thrown(st, "Expression is read-only")

(***************************************************************************)
(* arithmeticEvaluatorFactory: the facade and its options.                 *)
(* Object 0 is the temporary context a call merges, 1 the caller's scope,  *)
(* 2 the object the scope holds as a, 3 the function it holds as f, 4 the  *)
(* object a.o and 5 the function a.g.                                      *)
(***************************************************************************)
ContextId == 0

ScopeId == 1

ObjectId == 2

FunctionId == 3

InnerId == 4

MethodId == 5

EmptyObject == [k \in {} |-> Undefined]

constants ==
    ("null" :> Null) @@ ("undefined" :> Undefined) @@ ("true" :> Bool(TRUE))
    @@ ("false" :> Bool(FALSE)) @@ ("NaN" :> NaN) @@ ("Infinity" :> Infinity)

\* _.assign({}, constants, scope, locals): later sources override earlier ones
assign(consts, scope, locals) == locals @@ scope @@ consts

\* the record of a call: what it was given, what it gave, the object it ran
\* on as the call left it, and the heap before and after (the merged
\* temporary is dropped when the call returns)
Outcome(op, locals, value, r, ctx, h) ==
    [op |-> op, locals |-> locals, value |-> value, v |-> r.v,
     err |-> r.err, log |-> r.log, context |-> r.heap[ctx], before |-> h,
     after |-> [r.heap EXCEPT ![ContextId] = EmptyObject]]

\* variant: evaluate assigns as set does
InvokeSet(op, tr, ctx, strictMode, value, st) ==
    set(tr, ctx, strictMode, value, st)

\* evaluator.evaluate(context) / evaluator.set(context, value)
Invoke(op, tr, ctx, strictMode, value, st) ==
    IF op = "evaluate" THEN evaluate(tr, ctx, strictMode, st)
    ELSE set(tr, ctx, strictMode, value, st)

\* variant: the compiled tree is used on the scope whatever rawScope says
FacadeOnScope(op, tr, opts, h, locals, value) ==
    Outcome(op, locals, value,
            Invoke(op, tr, ScopeId, ~opts.notStrict, value,
                   [heap |-> h, log |-> <<>>]),
            ScopeId, h)

\* evaluator.evaluate / evaluator.set on the context the options select;
\* gives the outcome record of the call
Facade(op, tr, opts, h, locals, value) ==
    LET raw == opts.rawScope
        ctx == IF raw THEN ScopeId ELSE ContextId
        merged == [h EXCEPT ![ContextId] = assign(constants, h[ScopeId], locals)]
        st == [heap |-> IF raw THEN h ELSE merged, log |-> <<>>]
    IN  Outcome(op, locals, value,
                Invoke(op, tr, ctx, ~opts.notStrict, value, st), ctx, h)

NoOutcome ==
    [op |-> "none", locals |-> EmptyObject, value |-> Undefined, v |-> Undefined,
     err |-> "", log |-> <<>>, context |-> EmptyObject, before |-> <<>>,
     after |-> <<>>]

(***************************************************************************)
(* The expressions the evaluator is built from, as the trees the parser    *)
(* returns for them under the arithmetic language: entities of the terms   *)
(* decimal, identifier and operator, groups of parentheses, call and index *)
(* (whitespace is the aether and leaves no node).                          *)
(***************************************************************************)
Dec(c) == Entity("decimal", c)

Id(c) == Entity("identifier", c)

Op(c) == Entity("operator", c)

Paren(groups) == Group("parentheses", groups)

CallGroup(groups) == Group("call", groups)

IndexGroup(groups) == Group("index", groups)

\* the longest operator list drawn
MaxOps == 2

\* the longest argument list drawn
MaxArgs == 3

\* one operator of each level of the precedence table that the language's
\* operator term can give
LevelOps == <<",", "||", "&&", "|", "^", "&", "==", "<<", "+", "*">>

OpNames == {LevelOps[i] : i \in 1..Len(LevelOps)}

\* v1 op1 v2 ... opn v(n+1): operand number i is the literal i
RECURSIVE Flat(_)
Flat(ops) ==
    IF Len(ops) = 0 THEN <<Dec("1")>>
    ELSE Flat(SubSeq(ops, 1, Len(ops) - 1))
         \o <<Op(ops[Len(ops)]), Dec(Digit(Len(ops) + 1))>>

OpLists == UNION {[1..n -> OpNames] : n \in 1..MaxOps}

FlatSources == {Flat(ops) : ops \in OpLists}

\* (1 op1 2) op2 3 and 1 op1 (2 op2 3)
GroupedSources ==
    UNION {{<<Paren(<<Dec("1"), Op(ops[1]), Dec("2")>>), Op(ops[2]), Dec("3")>>,
            <<Dec("1"), Op(ops[1]), Paren(<<Dec("2"), Op(ops[2]), Dec("3")>>)>>}
           : ops \in [1..2 -> OpNames]}

\* a member access as an operand of a binary operator
MemberOperandSources ==
    {<<Id("a"), Op("."), Id("n"), Op(o), Dec("1")>> : o \in {"-", "+", "*"}}
    \cup {<<Dec("1"), Op(o), Id("a"), Op("."), Id("n")>> : o \in {"-", "+", "*"}}

BinarySources == FlatSources \cup GroupedSources \cup MemberOperandSources

\* operands of a conditional: of a higher level than the ternary
Operands ==
    {<<Dec("0")>>, <<Dec("1")>>, <<Dec("2")>>, <<Id("x")>>,
     <<Dec("2"), Op("+"), Dec("0")>>, <<Dec("0"), Op("*"), Dec("2")>>,
     <<Dec("1"), Op("||"), Dec("0")>>}

Conditional(c, a, b) == c \o <<Op("?")>> \o a \o <<Op(":")>> \o b

TernarySources ==
    {Conditional(c, a, b) : c \in Operands, a \in Operands, b \in Operands}
    \cup {Conditional(c1, <<Dec("1")>>, Conditional(c2, <<Dec("2")>>, <<Dec("3")>>))
          : c1 \in Operands, c2 \in Operands}

\* f(v)
CallOf(v) == <<Id("f"), CallGroup(<<Dec(v)>>)>>

\* conditions with and without a call
BranchConditions ==
    {CallOf("0"), CallOf("1"), <<Dec("0")>>, <<Dec("1")>>, <<Id("u")>>}

\* conditionals whose branches are calls: c ? f(2) : f(3) and
\* c1 ? f(2) : c2 ? f(3) : f(4)
BranchSources ==
    {Conditional(c, CallOf("2"), CallOf("3")) : c \in BranchConditions}
    \cup {Conditional(c1, CallOf("2"),
                      Conditional(c2, CallOf("3"), CallOf("4")))
          : c1 \in BranchConditions, c2 \in BranchConditions}

\* f() and a.g()
EmptyCallSources ==
    {<<Id("f"), CallGroup(<<>>)>>,
     <<Id("a"), Op("."), Id("g"), CallGroup(<<>>)>>}

\* method calls on the result of a call: f(a).g(1), f(a).o.g and f(a)[k](1)
ReceiverSources ==
    {<<Id("f"), CallGroup(<<Id("a")>>), Op("."), Id("g"), CallGroup(<<Dec("1")>>)>>,
     <<Id("f"), CallGroup(<<Id("a")>>), Op("."), Id("n")>>,
     <<Id("f"), CallGroup(<<Id("a")>>), IndexGroup(<<Id("k")>>),
       CallGroup(<<Dec("1")>>)>>}

Signs == {"+", "-"}

\* one value of each kind: a literal, a symbol, a parenthesized expression,
\* a member access, an index and a call
SignValues ==
    {<<Dec("2")>>, <<Id("x")>>, <<Paren(<<Dec("2")>>)>>,
     <<Id("a"), Op("."), Id("n")>>, <<Id("a"), IndexGroup(<<Dec("1")>>)>>,
     CallOf("2")}

\* + and - as the first node, after an operator token, and after a value
SignSources ==
    {<<Op(o), Dec("1")>> : o \in Signs}
    \cup {<<Dec("2"), Op("*"), Op(o), Dec("1")>> : o \in Signs}
    \cup {v \o <<Op(o), Dec("1")>> : v \in SignValues, o \in Signs}
    \cup {v \o <<Op(o), Op(t), Dec("1")>> : v \in SignValues, o \in Signs,
                                            t \in Signs}

\* f(1, ..., n)
RECURSIVE Arguments(_)
Arguments(n) ==
    IF n = 1 THEN <<Dec("1")>>
    ELSE Arguments(n - 1) \o <<Op(","), Dec(Digit(n))>>

CallSources ==
    {<<Id("f"), CallGroup(Arguments(n))>> : n \in 1..MaxArgs}
    \cup {<<Id("a"), Op("."), Id("g"), CallGroup(Arguments(n))>> : n \in 1..MaxArgs}
    \cup {<<Id("f"), CallGroup(<<Paren(Arguments(2))>>)>>,
          <<Paren(Arguments(2))>>}

\* left op f(1)
ShortCircuitSources ==
    {l \o <<Op(o), Id("f"), CallGroup(<<Dec("1")>>)>>
       : l \in {<<Id("true")>>, <<Id("false")>>, <<Dec("0")>>, <<Dec("1")>>,
                <<Id("u")>>, <<Id("f"), CallGroup(<<Dec("2")>>)>>},
         o \in {"||", "&&"}}

SymbolSources == {<<Id(n)>> : n \in {"x", "u", "zz", "true", "a"}}

\* Member and Index chains
ChainSources ==
    {<<Id("a"), Op("."), Id("n")>>,
     <<Id("a"), Op("."), Id("zz")>>,
     <<Id("zz"), Op("."), Id("n")>>,
     <<Id("a"), Op("."), Id("o"), Op("."), Id("k")>>,
     <<Id("a"), IndexGroup(<<Dec("0")>>)>>,
     <<Id("a"), IndexGroup(<<Dec("1")>>)>>,
     <<Id("a"), IndexGroup(<<Id("x")>>)>>,
     <<Id("a"), IndexGroup(<<Id("zz")>>)>>,
     <<Id("a"), Op("."), Id("o"), IndexGroup(<<Id("x")>>)>>,
     <<Id("a"), IndexGroup(<<Id("a"), IndexGroup(<<Dec("0")>>)>>)>>}

\* node lists that do not reduce to one node: nothing, operators without
\* operands, values without an operator, an operator token as an operand
MalformedSources ==
    {<<>>, <<Op("+")>>, <<Dec("1"), Dec("2")>>, <<Dec("1"), Op("+")>>,
     <<Op("*"), Dec("1")>>, <<Op("+"), Op("*"), Dec("2")>>, <<Paren(<<>>)>>,
     <<Dec("1"), Op("+"), Paren(<<Dec("1"), Dec("2")>>)>>}

\* conditionals with a half missing or a half too many
IncompleteTernarySources ==
    {<<Dec("1"), Op("?"), Dec("2")>>,
     <<Dec("1"), Op(":"), Dec("2")>>,
     <<Dec("1"), Op("?")>>,
     <<Op("?"), Dec("1"), Op(":"), Dec("2")>>,
     <<Dec("1"), Op("?"), Dec("2"), Op("?"), Dec("3")>>}
    \cup {<<Dec(c), Op("?"), Dec("2"), Op(":"), Dec("3"), Op(":"), Dec("4")>>
           : c \in {"0", "1"}}

\* one call for each kind of callee: a member, a symbol, an index, the
\* result of a call, and a member in parentheses
CalleeSources ==
    {<<Id("a"), Op("."), Id("g"), CallGroup(<<Dec("1")>>)>>,
     <<Id("f"), CallGroup(<<Dec("1")>>)>>,
     <<Id("a"), IndexGroup(<<Id("k")>>), CallGroup(<<Dec("1")>>)>>,
     <<Id("f"), CallGroup(<<Id("a"), Op("."), Id("g")>>), CallGroup(<<Dec("1")>>)>>,
     <<Paren(<<Id("a"), Op("."), Id("g")>>), CallGroup(<<Dec("1")>>)>>}

\* operators before and after one operand; ++ and -- as the two tokens the
\* language's operator term gives for them, and as one token
UnarySources ==
    {<<Op(o), Id("x")>> : o \in {"-", "+", "!", "~"}}
    \cup {<<Op(o), Op(o), Id("x")>> : o \in {"-", "+", "!"}}
    \cup {<<Id("x"), Op(o), Op(o)>> : o \in {"-", "+"}}
    \cup {<<Op(o), Id("x")>> : o \in {"++", "--"}}
    \cup {<<Id("x"), Op(o)>> : o \in {"++", "--"}}
    \cup {<<Id("x"), Op("="), Dec("2")>>}

\* a op b for every key of BinaryOperation's operators table
OperatorSources ==
    {<<Dec(a), Op(o), Dec(b)>> : a \in {"3", "8"}, b \in {"1", "2"},
                                 o \in operatorsBinary}

Sources ==
    BinarySources \cup TernarySources \cup CallSources \cup ShortCircuitSources
    \cup SymbolSources \cup ChainSources \cup MalformedSources
    \cup IncompleteTernarySources \cup OperatorSources \cup CalleeSources
    \cup UnarySources \cup BranchSources \cup SignSources
    \cup EmptyCallSources \cup ReceiverSources

(***************************************************************************)
(* The caller's side: a scope object with the object graph under it, the   *)
(* options given to the factory, and calls of evaluate and set.            *)
(***************************************************************************)
Scope(x, a0) ==
    (ContextId :> EmptyObject)
    @@ (ScopeId :> (("a" :> Ref(ObjectId)) @@ ("f" :> Ref(FunctionId))
                    @@ ("x" :> Num(x)) @@ ("u" :> Undefined)
                    @@ ("k" :> Str("g"))))
    @@ (ObjectId :> (("0" :> Num(a0)) @@ ("1" :> Num(3)) @@ ("n" :> Num(2))
                     @@ ("g" :> Ref(MethodId)) @@ ("o" :> Ref(InnerId))))
    @@ (FunctionId :> (CallKey :> Str("f")))
    @@ (InnerId :> EmptyObject)
    @@ (MethodId :> (CallKey :> Str("g")))

Scopes == {Scope(1, a0) : a0 \in {0, 1}}

Locals == {EmptyObject, ("zz" :> Num(1))}

SetValues == {Num(1), Str("b")}

ArithInit ==
    /\ source \in Sources
    /\ options \in [rawScope : BOOLEAN, notStrict : BOOLEAN]
    /\ heap \in IF source \in ChainSources THEN Scopes ELSE {Scope(1, 0)}
    /\ evaluator = <<>>
    /\ astate = "source"
    /\ outcome = NoOutcome
    /\ expr = <<>>
    /\ backtrack = FALSE
    /\ originalStrings = TRUE
    /\ pos = 0
    /\ stack = <<>>
    /\ pstate = "idle"
    /\ tree = <<>>
    /\ perror = <<>>
    /\ unparseArg = "none"
    /\ unparsed = <<>>
    /\ lspec = <<>>
    /\ language = arithmeticLanguage
    /\ parked = NoCall

\* arithmeticEvaluatorFactory(expression, options): the tree is compiled once
Compile ==
    /\ astate = "source"
    /\ evaluator' = compileTree(source)
    /\ astate' = IF IsError(evaluator') THEN "failed" ELSE "compiled"
    /\ UNCHANGED <<source, options, heap, outcome>>
    /\ UNCHANGED parserVars
    /\ UNCHANGED builderVars

Ready == astate \in {"compiled", "evaluated", "set"}

\* with rawScope the compiled Expression itself is returned: evaluate(scope)
\* and set(scope, value) take no locals
CallLocals == IF options.rawScope THEN {EmptyObject} ELSE Locals

\* result.evaluate(scope, locals)
Evaluate ==
    /\ Ready
    /\ \E locals \in CallLocals :
          outcome' = Facade("evaluate", evaluator, options, heap, locals, Undefined)
    /\ heap' = outcome'.after
    /\ astate' = "evaluated"
    /\ UNCHANGED <<source, options, evaluator>>
    /\ UNCHANGED parserVars
    /\ UNCHANGED builderVars

\* result.set(scope, value) and result.set(scope, locals, value)
SetValue ==
    /\ Ready
    /\ \E locals \in CallLocals, value \in SetValues :
          outcome' = Facade("set", evaluator, options, heap, locals, value)
    /\ heap' = outcome'.after
    /\ astate' = "set"
    /\ UNCHANGED <<source, options, evaluator>>
    /\ UNCHANGED parserVars
    /\ UNCHANGED builderVars

ArithNext ==
    \/ Compile
    \/ Evaluate
    \/ SetValue

SpecArith == ArithInit /\ [][ArithNext]_vars

(***************************************************************************)
(* Properties of the compiler and the evaluator                            *)
(***************************************************************************)
\* the node the Expression wrapper of the whole tree holds
Root == evaluator.kids[1]

\* the evaluation context a call starts from
ContextBefore ==
    IF options.rawScope THEN outcome.before[ScopeId]
    ELSE assign(constants, outcome.before[ScopeId], outcome.locals)

\* evaluation of a sub-tree from the state the last call started in
SubValue(n) == Facade("evaluate", n, options, outcome.before, outcome.locals, Undefined)

\* C2: when the left operand of || or && decides the result, the result is
\* the left value and nothing of the right operand is evaluated (no call of
\* the right operand is made)
C2_ShortCircuit ==
    (astate = "evaluated" /\ source \in ShortCircuitSources)
        => LET left == SubValue(Root.kids[1])
               decides == IF Root.name = "||" THEN ToBoolean(left.v)
                          ELSE ~ToBoolean(left.v)
           IN  (left.err = "" /\ decides)
                   => /\ outcome.err = ""
                      /\ outcome.v = left.v
                      /\ outcome.log = left.log

\* the grouping of a compiled tree
RECURSIVE Grouping(_)
Grouping(n) ==
    CASE n.cls = "Value" -> <<"leaf", ToKey(n.val)>>
      [] n.cls = "Symbol" -> <<"leaf", n.name>>
      [] n.cls = "Expression" -> <<"group", Grouping(n.kids[1])>>
      [] n.cls = "Member" ->
           <<"binary", ".", Grouping(n.kids[1]), <<"leaf", n.name>>>>
      [] n.cls = "BinaryOperation" ->
           <<"binary", n.name, Grouping(n.kids[1]), Grouping(n.kids[2])>>
      [] OTHER -> <<"none">>

\* the levels of the standard grammar, member access binding tightest
Level(o) ==
    CASE o = "," -> 0
      [] o = "||" -> 5
      [] o = "&&" -> 6
      [] o = "|" -> 7
      [] o = "^" -> 8
      [] o = "&" -> 9
      [] o \in {"==", "!=", "===", "!=="} -> 10
      [] o \in {"<", "<=", ">", ">="} -> 11
      [] o \in {"<<", ">>", ">>>"} -> 12
      [] o \in {"+", "-"} -> 13
      [] o \in {"*", "/", "%"} -> 14
      [] OTHER -> 18

\* the grouping the standard precedence grammar gives operand (operator
\* operand)*: split at the last operator of the lowest level
RECURSIVE Standard(_)
Standard(tokens) ==
    IF Len(tokens) = 1
    THEN IF tokens[1].grp THEN <<"group", Standard(tokens[1].groups)>>
         ELSE <<"leaf", tokens[1].content>>
    ELSE LET at == {i \in 1..Len(tokens) : tokens[i].type = "operator"}
             i == CHOOSE i \in at :
                     \A j \in at :
                        \/ Level(tokens[j].content) > Level(tokens[i].content)
                        \/ /\ Level(tokens[j].content) = Level(tokens[i].content)
                           /\ j <= i
         IN  <<"binary", tokens[i].content,
               Standard(SubSeq(tokens, 1, i - 1)),
               Standard(SubSeq(tokens, i + 1, Len(tokens)))>>

\* C3: an expression of values, parenthesized groups and binary operators
\* compiles, and its tree groups the operators as the standard precedence
\* grammar does (higher level first, same level left to right)
C3_Precedence ==
    (astate \in {"compiled", "failed"} /\ source \in BinarySources)
        => /\ astate = "compiled"
           /\ Grouping(Root) = Standard(source)

\* the compiled operand of a conditional
R(tokens) == compileTree(tokens).kids[1]

\* where the first operator o stands in a token list (0: nowhere)
First(tokens, o) ==
    LET at == {i \in 1..Len(tokens) : tokens[i] = Op(o)}
    IN  IF at = {} THEN 0 ELSE CHOOSE i \in at : \A j \in at : i <= j

\* c ? a : b, read off the text: c up to the first ?, a up to the first :
Condition(tokens) == SubSeq(tokens, 1, First(tokens, "?") - 1)

TrueBranch(tokens) == SubSeq(tokens, First(tokens, "?") + 1, First(tokens, ":") - 1)

FalseBranch(tokens) == SubSeq(tokens, First(tokens, ":") + 1, Len(tokens))

\* n is the conditional of all of c, all of a and all of b, the conditionals
\* of b grouped the same way
RECURSIVE GroupsAs(_, _)
GroupsAs(n, tokens) ==
    IF First(tokens, "?") = 0 THEN n = R(tokens)
    ELSE /\ n.cls = "TernaryOperation"
         /\ ~n.colon
         /\ Len(n.kids) = 3
         /\ n.kids[1] = R(Condition(tokens))
         /\ n.kids[2] = R(TrueBranch(tokens))
         /\ GroupsAs(n.kids[3], FalseBranch(tokens))

\* the value of the branch the conditions select
RECURSIVE Selected(_)
Selected(tokens) ==
    IF First(tokens, "?") = 0 THEN SubValue(R(tokens)).v
    ELSE IF ToBoolean(SubValue(R(Condition(tokens))).v)
    THEN SubValue(R(TrueBranch(tokens))).v
    ELSE Selected(FalseBranch(tokens))

\* C4: c ? a : b compiles to one conditional of all of c, all of a and all of
\* b; a conditional in the else position groups to the right; evaluation
\* gives the value of a when c is truthy and the value of b otherwise
C4_Ternary ==
    (astate # "source" /\ source \in TernarySources)
        => /\ astate # "failed"
           /\ GroupsAs(Root, source)
           /\ astate = "evaluated"
                => /\ outcome.err = ""
                   /\ outcome.v = Selected(source)

\* a conditional in the else position was evaluated down to its last branch
C4_Witness ==
    /\ astate = "evaluated"
    /\ source = Conditional(<<Dec("0"), Op("*"), Dec("2")>>, <<Dec("1")>>,
                            Conditional(<<Dec("0")>>, <<Dec("2")>>, <<Dec("3")>>))
    /\ outcome.v = Num(3)

\* C5: a call with the argument list 1, ..., n invokes the callee once with
\* the n values in their written order; outside an argument list a , b is
\* the value of b
C5_CallArguments ==
    /\ \A n \in 1..MaxArgs :
          (astate = "evaluated" /\ source = <<Id("f"), CallGroup(Arguments(n))>>)
              => /\ outcome.err = ""
                 /\ Len(outcome.log) = 1
                 /\ outcome.log[1].args = [i \in 1..n |-> Num(i)]
    /\ (astate = "evaluated" /\ source = <<Paren(Arguments(2))>>)
          => outcome.v = Num(2)

\* the object and the key a Member or Index root addresses, evaluated in heap h
Slot(h) ==
    LET base == Facade("evaluate", Root.kids[1], options, h, EmptyObject,
                       Undefined)
        index == Facade("evaluate", Root.kids[2], options, h, EmptyObject,
                        Undefined)
    IN  <<base.v, IF Root.cls = "Member" THEN Root.name ELSE ToKey(index.v)>>

\* set(scope, v) on a Member or Index chain over an existing object completed
ChainSet ==
    /\ astate = "set"
    /\ source \in ChainSources
    /\ outcome.locals = EmptyObject
    /\ outcome.err = ""
    /\ Slot(outcome.before)[1].t = "object"

\* v is in the addressed slot and nothing else of the object graph changed
WroteSlot ==
    LET slot == Slot(outcome.before)
    IN  outcome.after = [outcome.before EXCEPT ![slot[1].n] =
                            (slot[2] :> outcome.value) @@ @]

\* the evaluate(scope) that follows gives v
ReadsBack ==
    (astate' = "evaluated" /\ outcome'.locals = EmptyObject)
        => /\ outcome'.err = ""
           /\ outcome'.v = outcome.value

\* C6 as stated: set on a Member or Index chain writes v into the slot of the
\* object the base evaluates to and into nothing else, and the evaluate that
\* follows gives v
C6_LvalueChainsAlways ==
    [][/\ ChainSet' => WroteSlot'
       /\ ChainSet => ReadsBack]_vars

\* C6, amended: ... and the evaluate that follows gives v, when the write
\* changed neither the object the base evaluates to nor the key
C6_LvalueChains ==
    [][/\ ChainSet' => WroteSlot'
       /\ (ChainSet /\ Slot(outcome.before) = Slot(outcome.after))
             => ReadsBack]_vars

\* a[1] = "b" was written through the chain and then read back
C6_Witness ==
    /\ astate = "evaluated"
    /\ source = <<Id("a"), IndexGroup(<<Dec("1")>>)>>
    /\ outcome.locals = EmptyObject
    /\ outcome.v = Str("b")
    /\ heap[ObjectId]["1"] = Str("b")
    /\ heap[ObjectId]["0"] \in {Num(0), Num(1)}

RECURSIVE SymbolNames(_)
SymbolNames(n) ==
    IF n.cls = "Symbol" THEN {n.name}
    ELSE UNION {SymbolNames(n.kids[i]) : i \in 1..Len(n.kids)}

Passed == reduceAll(source, 1)

\* C11: when all precedence passes have run, compilation succeeds exactly
\* when one node is left and it is an Evaluatable, which is the root of the
\* tree returned; on every other list left it fails with 'Failed to parse
\* expression'; a pass that throws gives its error and no tree either
C11_SingleRoot ==
    astate \in {"compiled", "failed"} =>
       IF IsError(Passed.err)
       THEN astate = "failed" /\ evaluator = Passed.err
       ELSE IF Len(Passed.nodes) = 1 /\ Passed.nodes[1].ev
       THEN /\ astate = "compiled"
            /\ evaluator.cls = "Expression"
            /\ evaluator.kids = <<Passed.nodes[1]>>
       ELSE /\ astate = "failed"
            /\ evaluator = Error("Failed to parse expression")

\* two values without an operator are left as two nodes
C11_Witness ==
    /\ astate = "failed"
    /\ source = <<Dec("1"), Dec("2")>>
    /\ ~IsError(Passed.err)
    /\ Len(Passed.nodes) = 2
    /\ evaluator = Error("Failed to parse expression")

IsIncompleteTernary(n) ==
    /\ IsError(n)
    /\ n.content \in {"Incomplete ternary (missing \":\")",
                      "Incomplete ternary (missing \"?\")"}

\* C12: an expression with a ? that no : pair follows, or with a : pair that
\* no ? consumes, fails to compile with an incomplete-ternary error
C12_IncompleteTernary ==
    (astate # "source" /\ source \in IncompleteTernarySources) =>
       astate = "failed" /\ IsIncompleteTernary(evaluator)


\* C13: operator table. Evaluating "a op b" for a key op of the operators
\* table gives what the host's operator of that same symbol gives on the two
\* operand values: << shifts left, >> and >>> shift right.
C13_OperatorTable ==
    (astate = "evaluated" /\ source \in OperatorSources) =>
       /\ outcome.err = ""
       /\ outcome.v = HostOperator(source[2].content,
                                   parseFloat(source[1].content),
                                   parseFloat(source[3].content))


LastInvocation == outcome.log[Len(outcome.log)]

\* C15: receiver binding. A call whose callee is a Member node (a.g(1)) invokes
\* the function with the value of the member's base as its receiver; a call
\* whose callee is a symbol, an index, the result of a call or an expression in
\* parentheses invokes it with no receiver.
C15_ReceiverBinding ==
    (astate = "evaluated" /\ source \in CalleeSources) =>
       /\ outcome.err = ""
       /\ Root.cls = "Call"
       /\ Root.kids[1].cls = "Member" <=> source[2] = Op(".")
       /\ Len(outcome.log) >= 1
       /\ LastInvocation.this = IF Root.kids[1].cls = "Member"
                                THEN Get(outcome.before, Ref(ScopeId), "a")
                                ELSE Undefined

C15_Witness ==
    /\ astate = "evaluated"
    /\ source = <<Id("a"), Op("."), Id("g"), CallGroup(<<Dec("1")>>)>>
    /\ LastInvocation = [fn |-> "g", this |-> Ref(ObjectId), args |-> <<Num(1)>>]


\* C16: evaluation is read-only. A call of evaluate leaves every object of the
\* caller's heap, the scope object included, as it was, and leaves the merged
\* context as it was built (the functions of the scope write nothing here);
\* no source compiles to a tree with an incrementing or decrementing node.
C16_ReadOnly ==
    /\ (astate = "evaluated") =>
          /\ outcome.op = "evaluate"
          /\ outcome.after = outcome.before
          /\ outcome.context = ContextBefore
          /\ heap = outcome.before
    /\ (astate # "source" /\ source \in UnarySources /\ ~IsError(evaluator)) =>
          /\ Root.cls = "PrefixUnaryOperation"
          /\ Root.name \in {"-", "+", "!", "~"}

C16_Witness ==
    /\ astate = "evaluated"
    /\ source = <<Op("-"), Op("-"), Id("x")>>
    /\ Root.kids[1].cls = "PrefixUnaryOperation"
    /\ ~options.rawScope
    /\ outcome.locals = ("zz" :> Num(1))
    /\ outcome.v = Num(1)
    /\ outcome.context = assign(constants, heap[ScopeId], outcome.locals)


\* C14: relational operators. The grammar recognises < between two values as
\* an operator token: the parse of a<a returns a tree of an identifier, the
\* operator < and an identifier.
C14_Relational ==
    (expr = <<"a", "<", "a">> /\ pstate # "parsing") =>
       /\ pstate \in {"returned", "unparsed"}
       /\ Len(tree[1].groups) = 3
       /\ tree[1].groups[2].type = "operator"
       /\ tree[1].groups[2].length = 1


(***************************************************************************)
(* Properties of languageBuilder                                           *)
(***************************************************************************)
Built == language.err # "not built"

\* the names a value of a spec refers to, stated on the spec itself
RECURSIVE References(_)
References(v) ==
    CASE v.kind = "string" -> {v.ref}
      [] v.kind = "array" -> UNION {References(v.items[i]) : i \in 1..Len(v.items)}
      [] v.kind = "object" ->
           (IF "subgroups" \in v.def.has THEN References(v.def.subgroups) ELSE {})
           \cup (IF "postgroups" \in v.def.has THEN References(v.def.postgroups)
                 ELSE {})
      [] OTHER -> {}

Declared(spec) == {spec[i].name : i \in 1..Len(spec)}

Definitions(spec) ==
    {spec[i].value.def : i \in {j \in 1..Len(spec) : spec[j].value.kind = "object"}}

\* a reference to a name the spec does not declare
DanglingReference(spec) ==
    \E i \in 1..Len(spec) : ~(References(spec[i].value) \subseteq Declared(spec))

\* an entity with start or end markers or with subgroups; a definition with
\* neither an entity nor both markers
BadDefinition(spec) ==
    \E d \in Definitions(spec) :
       IF "entity" \in d.has THEN d.has \cap {"start", "end", "subgroups"} # {}
       ELSE ~({"start", "end"} \subseteq d.has)

NoRoot(spec) == "$root" \notin Declared(spec) \/ SpecGet(spec, "$root") = Name("")

\* C18: total validation. languageBuilder throws, and nothing is parsed,
\* whenever the spec has no root or has, in an entry the root reaches or not, a
\* reference to a name it does not declare, an entity with start or end
\* markers or subgroups, or a definition with neither an entity nor both a
\* start and an end marker.
C18_TotalValidation ==
    (Built /\ (NoRoot(lspec.spec) \/ DanglingReference(lspec.spec)
                 \/ BadDefinition(lspec.spec)))
       => language.err # "" /\ pstate = "idle"

\* the names reached from a set of names in at most n steps, through the
\* entries of the given kinds
RECURSIVE Reach(_, _, _, _)
Reach(spec, names, kinds, n) ==
    IF n = 0 THEN names
    ELSE Reach(spec,
               names \cup UNION {References(SpecGet(spec, m)) :
                                   m \in {d \in names \cap Declared(spec) :
                                            SpecGet(spec, d).kind \in kinds}},
               kinds, n - 1)

\* the groups whose subgroups or postgroups reach their own name
RecursiveGroups(spec) ==
    {g \in Declared(spec) :
        /\ SpecGet(spec, g).kind = "object"
        /\ g \in Reach(spec, References(SpecGet(spec, g)),
                       {"string", "array", "object"}, Len(spec))}

\* a phrase that reaches its own name through phrases alone
PhraseCycle(spec) ==
    \E i \in 1..Len(spec) :
       /\ spec[i].value.kind \in {"string", "array"}
       /\ spec[i].name \in Reach(spec, References(spec[i].value),
                                 {"string", "array"}, Len(spec))

\* every entry is a name, a list of names that is not empty, or a definition
Plain(spec) ==
    \A i \in 1..Len(spec) :
       \/ spec[i].value.kind \in {"string", "object"}
       \/ /\ spec[i].value.kind = "array"
          /\ Len(spec[i].value.items) > 0
          /\ \A j \in 1..Len(spec[i].value.items) :
                spec[i].value.items[j].kind = "string"

WellFormed(spec) ==
    /\ ~NoRoot(spec) /\ ~DanglingReference(spec) /\ ~BadDefinition(spec)
    /\ ~PhraseCycle(spec) /\ Plain(spec)

\* the first group of the spec that opens with "("
Opening(spec) ==
    spec[CHOOSE i \in 1..Len(spec) :
            /\ spec[i].value.kind = "object"
            /\ "start" \in spec[i].value.def.has
            /\ spec[i].value.def.start = StringMarker(<<"(">>)
            /\ \A j \in 1..(i - 1) :
                  ~(/\ spec[j].value.kind = "object"
                    /\ "start" \in spec[j].value.def.has
                    /\ spec[j].value.def.start = StringMarker(<<"(">>))].name

\* an occurrence of that group nested n deep in itself: directly where it
\* lists itself, through the group angle where it reaches itself through it
NestedText(spec, n) ==
    IF HasKey(spec, "angle") THEN Nested(<<"(", "<">>, <<"+", ")">>, n)
    ELSE Nested(<<"(">>, <<")">>, n)

\* how deep nodes of type g are nested in one another in a parse tree
RECURSIVE Depth(_, _)
Depth(node, g) ==
    LET below == IF "groups" \in DOMAIN node
                 THEN {Depth(node.groups[i], g) : i \in 1..Len(node.groups)}
                 ELSE {}
        deepest == IF below = {} THEN 0
                   ELSE CHOOSE d \in below : \A e \in below : e <= d
    IN  deepest + (IF node.type = g THEN 1 ELSE 0)

\* C17: grammar cycles.  For a spec with a group whose subgroups or
\* postgroups reach its own name, directly or through phrases or other
\* groups, languageBuilder returns, and returns a grammar when the spec is
\* well formed; that grammar has the group among its terms, and the parse
\* of an occurrence of the group nested n deep in itself returns a tree in
\* which the group's nodes are nested n deep.
C17_GrammarCycles ==
    (Built /\ RecursiveGroups(lspec.spec) # {} /\ WellFormed(lspec.spec))
       => /\ language.err = ""
          /\ RecursiveGroups(lspec.spec) \subseteq DOMAIN language.terms
          /\ \A n \in 1..MaxDepth :
                (pstate \in {"returned", "threw"}
                 /\ expr = NestedText(lspec.spec, n))
                   => /\ pstate = "returned"
                      /\ Depth(tree[1], Opening(lspec.spec)) = n

C17_Witness ==
    /\ lspec.spec = mutual
    /\ pstate = "returned"
    /\ expr = NestedText(mutual, MaxDepth)
    /\ Depth(tree[1], "paren") = MaxDepth
    /\ Depth(tree[1], "angle") = MaxDepth

(***************************************************************************)
(* Properties of calls that share a language                               *)
(***************************************************************************)
\* the closure of the call whose steps are taken
Cursor ==
    [expr |-> expr, backtrack |-> backtrack, pos |-> pos, stack |-> stack,
     pstate |-> pstate, tree |-> tree, perror |-> perror]

Finished(c) == c.pstate \in {"returned", "threw"}

\* C19: independent cursors.  No step of a call changes the language it
\* parses with (terms, marker matchers, subgroup and postgroup lists); a
\* step of one call leaves the offset and the other locals of the other call
\* as they are; and two calls over one language with the same text and
\* options, their steps interleaved in any order, return the same tree or
\* throw the same error.
C19_IndependentCursors ==
    [][/\ language # NotBuilt => language' = language
       /\ \/ parked' = parked
          \/ parked' = Cursor /\ Cursor' = parked
       /\ (/\ Finished(Cursor') /\ Finished(parked')
           /\ expr' = parked'.expr /\ backtrack' = parked'.backtrack)
             => /\ pstate' = parked'.pstate
                /\ tree' = parked'.tree
                /\ perror' = parked'.perror]_vars

(***************************************************************************)
(* Properties of tryMatchSubgroups                                         *)
(***************************************************************************)
\* tryMatchSubgroup is about to be called on candidate Top.k
InTry == pstate = "parsing" /\ Top.phase = "subs" /\ pos < Len(expr)

\* the start marker of candidate j of the current set matches at the offset
StartMatches(j) ==
    /\ Top.nextGroups[j] \in DOMAIN Terms
    /\ ~Terms[Top.nextGroups[j]].start.sticky
    /\ tryMatch(Terms[Top.nextGroups[j]].start, expr, pos) # <<>>

\* no candidate before the current one matches at the offset
Skipped == \A j \in 1..(Top.k - 1) : ~StartMatches(j)

\* the call on candidate Top.k: a candidate whose start marker matches is
\* taken, its marker consumed; an entity gives its node at once and the
\* iteration is over, the body of a group is parsed next; any other
\* candidate consumes nothing and gives no node
Attempted ==
    LET sub == Terms[Top.nextGroups[Top.k]]
        start == tryMatch(sub.start, expr, pos)
    IN  IF StartMatches(Top.k)
        THEN /\ pos' = pos + Len(start)
             /\ IF sub.isEntity
                THEN /\ Len(stack') = Len(stack)
                     /\ Len(Top'.groups) = Len(Top.groups) + 1
                     /\ SubSeq(Top'.groups, 1, Len(Top.groups)) = Top.groups
                     /\ Top'.groups[Len(Top'.groups)].type = sub.name
                     /\ Top'.groups[Len(Top'.groups)].position = pos
                     /\ Top'.groups[Len(Top'.groups)].length = Len(start)
                     /\ Top'.k = 1
                ELSE /\ stack' = Append(stack, Top')
                     /\ Top'.group = sub.name
                     /\ Top'.startPosition = pos
                     /\ Top'.groups = <<>>
        ELSE /\ pos' = pos
             /\ Len(stack') = Len(stack)
             /\ Top'.groups = Top.groups
             /\ \/ Top'.phase = "throw"
                \/ Top'.phase = "end" /\ Top.k = Len(Top.nextGroups)
                \/ Top'.phase = "subs" /\ Top'.k = Top.k + 1

\* getGroup is left for the tryMatchSubgroup that called it: a group that
\* ended gives one node and the iteration is over; a body that failed, under
\* backtrack, gives none, the offset is restored and the next candidate
\* follows
Left ==
    LET f == Top
        parent == stack[Len(stack) - 1]
    IN  IF f.phase = "throw"
        THEN /\ backtrack
             /\ pos' = f.startPosition
             /\ Top'.groups = parent.groups
             /\ \/ Top'.phase = "throw" /\ f.viaAether
                \/ Top'.phase = "end" /\ parent.k = Len(parent.nextGroups)
                \/ Top'.phase = "subs" /\ Top'.k = parent.k + 1
        ELSE /\ Top'.k = 1
             /\ IF f.viaAether THEN Top'.groups = parent.groups
                ELSE /\ Len(Top'.groups) = Len(parent.groups) + 1
                     /\ SubSeq(Top'.groups, 1, Len(parent.groups)) = parent.groups
                     /\ Top'.groups[Len(Top'.groups)].type = f.group
                     /\ Top'.groups[Len(Top'.groups)].position = f.startPosition

\* a step of the call whose steps are taken, and not a change of call
Steps == parked' = parked /\ pstate' = "parsing"

\* C20 as stated: first match wins.  At each step the candidates of the
\* current set are tried in declared order and the first whose start marker
\* matches at the offset is taken: no candidate before the one tried matches
\* there, with backtrack on or off; the candidates after the one taken are not
\* tried in that iteration, consume nothing and give no node.
C20_FirstMatchAlways ==
    [][/\ InTry => Skipped
       /\ (InTry /\ Steps) => Attempted
       /\ (pstate = "parsing" /\ Steps /\ Len(stack') = Len(stack) - 1) => Left]_vars

\* C20, amended: with backtrack off no candidate before the one tried matches
\* at the offset, so the one taken is the first whose start marker matches;
\* with backtrack on a candidate before it may match, its body having failed:
\* it gave no node, the offset was restored and the candidates after it are
\* tried.  In both cases the candidates after the one taken are not tried in
\* that iteration, consume nothing and give no node.
C20_FirstMatch ==
    [][/\ (InTry /\ ~backtrack) => Skipped
       /\ (InTry /\ Steps) => Attempted
       /\ (pstate = "parsing" /\ Steps /\ Len(stack') = Len(stack) - 1) => Left]_vars

\* "(a)" where a group and an entity after it both start with "(": the group
\* was taken and the entity gave no node
C20_Witness ==
    /\ lspec.spec = ambiguous
    /\ ~backtrack
    /\ expr = <<"(", "a", ")">>
    /\ pstate = "returned"
    /\ Len(tree[1].groups) = 1
    /\ tree[1].groups[1].type = "paren"
    /\ tree[1].groups[1].groups[1].type = "id"

(***************************************************************************)
(* Properties of getGroup's loop                                           *)
(***************************************************************************)
\* the candidate set the statement names after a match of the term sub in
\* the frame f
Switched(f, sub) ==
    IF sub.hasPostgroups /\ ~sub.samePostgroups THEN sub.postgroups
    ELSE f.nextGroups

\* C21: candidate-set switching.  After a candidate matched inside a group
\* (an entity, or a group that ended) the candidate set of the following
\* iterations is the matched term's postgroups when it declares postgroups
\* and samePostgroups is false, and the current set in every other case.
C21_CandidateSets ==
    [][/\ (InTry /\ Steps /\ StartMatches(Top.k)
             /\ Terms[Top.nextGroups[Top.k]].isEntity)
          => Top'.nextGroups = Switched(Top, Terms[Top.nextGroups[Top.k]])
       /\ (pstate = "parsing" /\ Steps /\ Len(stack') = Len(stack) - 1
             /\ Top.phase # "throw" /\ ~Top.viaAether)
          => Top'.nextGroups = Switched(stack[Len(stack) - 1],
                                        Terms[Top.group])]_vars

\* the end marker of the open group does not match at the offset
EndFails ==
    IsRoot(Top.group) \/ tryMatch(Terms[Top.group].end, expr, pos) = <<>>

\* C22: aether.  The aether term is tried only when the end marker of the
\* open group does not match at the offset and no candidate of the current
\* set gave a match there (with backtrack off: no candidate's start marker
\* matches; with backtrack on those that start there were rejected, which the
\* offset and the candidate index tell: the frame went through all its
\* candidates and the end marker before).  An aether match, of an entity at
\* once and of a group when it has ended, advances the offset, appends no
\* node and leaves the candidate set as it was.
C22_Aether ==
    [][/\ (pstate = "parsing" /\ Top.phase = "aether")
          => /\ EndFails
             /\ Top.k = Len(Top.nextGroups) \/ Len(Top.nextGroups) = 0
             /\ ~backtrack => \A j \in 1..Len(Top.nextGroups) : ~StartMatches(j)
       /\ (pstate = "parsing" /\ Steps /\ Top'.phase = "aether"
             /\ Len(stack') = Len(stack))
          => Top.phase \in {"end", "aether"}
       /\ (pstate = "parsing" /\ Steps /\ Top.phase = "aether"
             /\ Top'.phase # "throw")
          => \/ /\ Len(stack') = Len(stack)
                /\ pos' > pos
                /\ Top'.groups = Top.groups
                /\ Top'.nextGroups = Top.nextGroups
             \/ /\ stack' = Append(stack, Top')
                /\ pos' > pos
                /\ Top'.viaAether /\ Top'.group = Aether
       /\ (pstate = "parsing" /\ Steps /\ Len(stack') = Len(stack) - 1
             /\ Top.phase # "throw" /\ Top.viaAether)
          => /\ pos' > Top.startPosition
             /\ Top'.groups = stack[Len(stack) - 1].groups
             /\ Top'.nextGroups = stack[Len(stack) - 1].nextGroups]_vars

\* "a " where a switched the candidate set: the space was consumed as aether,
\* the set and the nodes are those of before
C22_Witness ==
    /\ lspec.spec = switching
    /\ pstate = "parsing"
    /\ expr = <<"a", " ">>
    /\ pos = 2
    /\ Top.nextGroups = <<"plus", "paren">>
    /\ Len(Top.groups) = 1

\* C23: backtracking.  When the body of a candidate whose start marker
\* matched fails (the exception leaves its getGroup): with backtrack on the
\* offset is again the one at which the candidate was tried, the frame that
\* tried it has the nodes it had, the open groups around it are as they
\* were, and the next candidate of its set follows (the end marker after the
\* last one); with backtrack off the parse throws that error and returns no
\* tree.
C23_Backtracking ==
    [][(pstate = "parsing" /\ parked' = parked /\ Top.phase = "throw"
          /\ Len(stack) > 1
          /\ ~Top.viaAether)
         => IF backtrack
            THEN /\ pstate' = "parsing"
                 /\ pos' = Top.startPosition
                 /\ Pop(stack') = Pop(Pop(stack))
                 /\ Len(stack') = Len(stack) - 1
                 /\ Top'.groups = stack[Len(stack) - 1].groups
                 /\ Top'.nextGroups = stack[Len(stack) - 1].nextGroups
                 /\ tryMatch(Terms[Top.group].start, expr, pos') # <<>>
                 /\ IF stack[Len(stack) - 1].k < Len(Top'.nextGroups)
                    THEN Top'.phase = "subs"
                         /\ Top'.k = stack[Len(stack) - 1].k + 1
                    ELSE Top'.phase = "end"
            ELSE /\ pstate' = "threw"
                 /\ perror' = <<Top.err>>
                 /\ tree' = <<>>]_vars

\* "(a" where a group and an entity start with "(": the group was opened,
\* took a, and failed at the end of the text; the entity was taken at 0
C23_Witness ==
    /\ lspec.spec = ambiguous
    /\ backtrack
    /\ expr = <<"(", "a">>
    /\ pstate = "returned"
    /\ Len(tree[1].groups) = 2
    /\ tree[1].groups[1].type = "open"
    /\ tree[1].groups[2].position = 1

\* the characters the nodes of a list span together
RECURSIVE Covered(_)
Covered(groups) ==
    IF groups = <<>> THEN 0 ELSE Head(groups).length + Covered(Tail(groups))

\* the length of a node's marker ("start" or "end"), 0 for the root and for
\* an entity, which have none
MarkerLength(node, which) ==
    IF which \in DOMAIN node THEN Len(node[which]) ELSE 0

\* the spans of a node and of the nodes below it: an entity spans its
\* content; a group spans its start marker, its nodes in order without
\* overlap, and its end marker, with nothing else when the language has no
\* aether
RECURSIVE Spans(_)
Spans(node) ==
    IF "groups" \notin DOMAIN node
    THEN node.length = Len(node.content)
    ELSE LET first == node.position + MarkerLength(node, "start")
             last == node.position + node.length - MarkerLength(node, "end")
         IN  /\ first <= last
             /\ \A i \in DOMAIN node.groups :
                    /\ node.groups[i].length >= 1
                    /\ first <= node.groups[i].position
                    /\ node.groups[i].position + node.groups[i].length <= last
                    /\ Spans(node.groups[i])
             /\ \A i \in 1 .. Len(node.groups) - 1 :
                    node.groups[i].position + node.groups[i].length
                        <= node.groups[i + 1].position
             /\ Covered(node.groups) <= last - first
             /\ Aether = "" => Covered(node.groups) = last - first

\* C24: span invariant.  In every tree that parse returns the root starts
\* at 0 and its length is the length of the input; every node's length is
\* the number of characters consumed from its start to its end (its start
\* marker, its nodes, aether between them and its end marker); every node
\* lies inside its parent's span, between the parent's markers; of two
\* consecutive siblings the later starts at or after the end of the earlier.
C24_SpanInvariant ==
    pstate = "returned"
        => /\ Len(tree) = 1
           /\ tree[1].position = 0
           /\ tree[1].length = Len(expr)
           /\ Spans(tree[1])

\* a group nested in a group that spans the whole input: the inner group
\* starts after the outer start marker and ends before the outer end marker
C24_Witness ==
    /\ pstate = "returned" /\ Len(tree[1].groups) = 1
    /\ "groups" \in DOMAIN tree[1].groups[1]
    /\ tree[1].groups[1].length = Len(expr)
    /\ Len(tree[1].groups[1].groups) = 1
    /\ "groups" \in DOMAIN tree[1].groups[1].groups[1]
    /\ tree[1].groups[1].groups[1].position >= 1

\* the first arguments of the calls made when tokens is evaluated as written:
\* those of the condition, then those of the one branch it selects
RECURSIVE Taken(_)
Taken(tokens) ==
    IF First(tokens, "?") = 0
    THEN IF Len(tokens) = 2 THEN <<tokens[2].groups[1].content>> ELSE <<>>
    ELSE LET c == Condition(tokens)
             truthy == IF Len(c) = 2 THEN c[2].groups[1].content # "0"
                       ELSE c[1].content \notin {"0", "u"}
         IN  Taken(c) \o (IF truthy THEN Taken(TrueBranch(tokens))
                          ELSE Taken(FalseBranch(tokens)))

\* C25: untaken branch.  Evaluating a conditional evaluates its condition
\* once and then the one branch the condition's truthiness selects; the other
\* branch is not evaluated: the calls made are those of the condition, once,
\* followed by those of the selected branch, and no other
C25_UntakenBranch ==
    (astate = "evaluated" /\ source \in BranchSources)
        => /\ outcome.err = ""
           /\ Len(outcome.log) = Len(Taken(source))
           /\ \A i \in DOMAIN outcome.log :
                 /\ outcome.log[i].fn = "f"
                 /\ Len(outcome.log[i].args) = 1
                 /\ outcome.log[i].args[1].t = "number"
                 /\ Decimal(outcome.log[i].args[1].n) = Taken(source)[i]

\* f(0) ? f(2) : f(1) ? f(3) : f(4) made the calls f(0), f(1), f(3)
C25_Witness ==
    /\ astate = "evaluated"
    /\ source = Conditional(CallOf("0"), CallOf("2"),
                            Conditional(CallOf("1"), CallOf("3"), CallOf("4")))
    /\ Len(outcome.log) = 3
    /\ outcome.log[3].args = <<Num(3)>>

\* the table terms after languageBuilder's two passes over the spec
Resolved(spec) ==
    resolveAll(spec, 1, resolve(spec, SpecGet(spec, "$root"), NoName, NoTerms))

\* the Term objects made for a name
Instances(made, name) == {i \in DOMAIN made : made[i] = name}

\* one Term object was made for each of the names
MadeOnce(made, names) ==
    \A name \in names : Cardinality(Instances(made, name)) = 1

\* the names that occur in a list
Listed(names) == {names[i] : i \in DOMAIN names}

\* every occurrence of a term in the language: in the root list, in the
\* lists of the terms of the table, and under the keys of the table
Occurrences ==
    Listed(language.root)
    \cup UNION {Listed(Terms[k].subgroups) \cup Listed(Terms[k].postgroups)
                : k \in DOMAIN Terms}
    \cup {Terms[k].name : k \in DOMAIN Terms}

\* C26: shared term instances.  In a language that languageBuilder returned,
\* every name that occurs in the root list, in a subgroups or postgroups list
\* or under a key of the table stands for one Term object: convertTerm made
\* exactly one object for it, also when the term lists itself or is reached
\* through phrases and other terms; the key of a term holds the term of that
\* name, the key of a phrase or of another name for a term the same entry as
\* the term's own key
C26_SharedInstances ==
    (lspec # <<>> /\ language # NotBuilt /\ language.err = "")
        => /\ MadeOnce(Resolved(lspec.spec).made, Occurrences \ ObjectPrototype)
           /\ \A name \in Occurrences \ ObjectPrototype :
                 /\ name \in DOMAIN Terms
                 /\ Terms[name].name = name
           /\ \A k \in DOMAIN Terms : Terms[k] = Terms[Terms[k].name]

\* two groups that reach each other through a phrase, one of them listing
\* itself as well
C26_Witness ==
    /\ lspec # <<>> /\ language # NotBuilt /\ language.err = ""
    /\ lspec.spec = mutual
    /\ \E k \in DOMAIN Terms : Terms[k].name # k
    /\ \E k \in DOMAIN Terms : k \in Listed(Terms[k].subgroups)

\* n is the prefix operation of sign o on the literal 1
IsSign(n, o) ==
    /\ n.cls = "PrefixUnaryOperation" /\ n.name = o
    /\ n.kids[1] = R(<<Dec("1")>>)

\* C27: sign versus binary.  A + or - that is the first node of its list or
\* follows an operator token is reduced as a prefix sign; one that follows a
\* value (literal, symbol, parenthesized expression, member access, index or
\* call) is reduced as a binary additive operator whose left operand is the
\* value, and a + or - after it as the sign of the right operand
C27_SignOrBinary ==
    (astate # "source" /\ source \in SignSources)
        => /\ astate # "failed"
           /\ \A o \in Signs :
                 /\ source = <<Op(o), Dec("1")>> => IsSign(Root, o)
                 /\ source = <<Dec("2"), Op("*"), Op(o), Dec("1")>>
                       => /\ Root.cls = "BinaryOperation" /\ Root.name = "*"
                          /\ IsSign(Root.kids[2], o)
                 /\ \A v \in SignValues :
                       /\ source = v \o <<Op(o), Dec("1")>>
                             => /\ Root.cls = "BinaryOperation" /\ Root.name = o
                                /\ Root.kids[1] = R(v)
                                /\ Root.kids[2] = R(<<Dec("1")>>)
                       /\ \A t \in Signs :
                             source = v \o <<Op(o), Op(t), Dec("1")>>
                                => /\ Root.cls = "BinaryOperation"
                                   /\ Root.name = o
                                   /\ Root.kids[1] = R(v)
                                   /\ IsSign(Root.kids[2], t)
           /\ (astate = "evaluated" /\ source = <<Dec("2"), Op("-"), Op("-"), Dec("1")>>)
                 => outcome.v = Num(3)

\* C28: empty argument list.  A call with no argument compiles, and its
\* evaluation invokes the callee once with no argument
C28_EmptyArguments ==
    (astate # "source" /\ source \in EmptyCallSources)
        => /\ astate # "failed"
           /\ Root.cls = "Call"
           /\ astate = "evaluated"
                 => /\ outcome.err = ""
                    /\ Len(outcome.log) = 1
                    /\ outcome.log[1].args = <<>>

\* the invocations of the host function fn in the log of the last call
InvocationsOf(fn) == {i \in DOMAIN outcome.log : outcome.log[i].fn = fn}

\* C29: receiver evaluated once.  Evaluating the method call f(a).g(1)
\* evaluates its base f(a) once: f is invoked once, then g with the result
\* as its receiver
C29_ReceiverOnce ==
    (astate = "evaluated" /\ source \in ReceiverSources)
        => /\ outcome.err = ""
           /\ Cardinality(InvocationsOf("f")) = 1
           /\ Root.cls = "Call"
                 => /\ Len(outcome.log) = 2
                    /\ LastInvocation.fn = "g"

\* C30: parser termination.  Every call of recursiveParser that has started
\* returns or throws.  A step that leaves the call running either advances
\* the offset by at least one character (the start marker of an entity or of
\* a nested group, the end marker of a group, an aether), or leaves the
\* offset and moves the open group on in its pass (next candidate, end
\* marker, aether, failure), or, with backtrack, gives up a failed candidate,
\* puts the offset back to where the candidate started and moves the parent
\* on; a frame is opened only with a start marker of at least one character
\* consumed, and a marker that matches the empty string opens and closes
\* nothing.
C30_Termination ==
    /\ [][(pstate = "parsing" /\ pstate' = "parsing")
            => /\ \/ pos' > pos
                  \/ /\ pos' = pos
                     /\ Len(stack') = Len(stack)
                     /\ Pop(stack') = Pop(stack)
                     /\ Rank(Top') > Rank(Top)
                  \/ /\ backtrack /\ Top.phase = "throw"
                     /\ Len(stack') = Len(stack) - 1
                     /\ pos' = Top.startPosition
                     /\ pos' < pos
                     /\ Rank(Top') > Rank(stack[Len(stack) - 1])
               /\ Len(stack') > Len(stack)
                     => /\ Len(Top'.start) >= 1
                        /\ pos' = pos + Len(Top'.start)
                        /\ Top'.startPosition = pos
               /\ pos' <= Len(expr)]_vars
    /\ (pstate = "parsing" ~> pstate \in {"returned", "threw"})

\* an entity whose marker is the empty string was the last candidate at
\* offset 0 of a text that nothing else starts: the parse ended in a syntax
\* error there
C30_Witness ==
    /\ lspec # <<>>
    /\ lspec.spec = Extended(EntityTerm(StringMarker(<<>>)), TRUE)
    /\ pstate = "threw" /\ Len(expr) >= 1
    /\ perror[1].error = "Syntax error" /\ perror[1].at = 0
====
